---- MODULE Spec2Model ----
(***************************************************************************)
(* rssbrief: the feed ingestion and brief-generation pipeline of the       *)
(* Convex backend (convex/feeds.ts, convex/briefs.ts, convex/utils.ts).    *)
(*                                                                         *)
(* Time is counted in hours since the Unix epoch (the code counts          *)
(* milliseconds; every comparison of the code is kept).  A Convex query or *)
(* mutation is one atomic step; an action (internalAction) is a sequence   *)
(* of such steps, one per await, and steps of concurrent actions           *)
(* interleave.                                                             *)
(***************************************************************************)
EXTENDS Integers, Sequences, FiniteSets, TLC

VARIABLES
    clock,       \* Date.now(), in hours
    version,     \* which refresh engine is deployed: "userFeeds" | "allFeeds"
    prefs,       \* preferences table: user -> row
    topicFeeds,  \* topicFeeds table: sequence of rows [userId, topicId, feedId]
    feeds,       \* feeds table: feed id -> updatedAt (0: never set)
    served,      \* what each feed URL currently serves: feed id -> payload name
    feedItems,   \* feedItems table: sequence of rows [url, feedId, publishedAt]
    articles,    \* articles table (older engine): rows [url, feedId, publishedAt]
    errorLog,    \* console.error of updateAllFeeds: links whose extraction failed
    runs,        \* refresh actions in flight: slot -> local state of the action
    cycles,      \* number of firings of the cron job so far
    started,     \* number of refresh actions started so far
    briefItems,  \* briefItems table: rows [userId, feedItemId, createdAt]
    bruns,       \* updateUserBriefs actions in flight: slot -> local state
    bstarted,    \* number of updateUserBriefs actions started so far
    due,         \* what getUsersNeedingWeeklyDigest returned last, and when
    druns,       \* generateScheduledWeeklyDigests actions: slot -> local state
    outbox,      \* the digest emails the email provider accepted, in order
    briefs,      \* briefs table: rows [userId, content, status, sentAt]
    topics,      \* topics table: topic id -> [st, userId, name]
    feedUrl,     \* feeds table: feed row id -> url (NoLink: no such row)
    rss,         \* the last safeParseRSS call: what the request met, what it returned
    triggered    \* generateScheduledBriefs: the users it called generateBriefForUser for

vars == <<clock, version, prefs, topicFeeds, feeds, served, feedItems, articles,
          errorLog, runs, cycles, started, briefItems, bruns, bstarted, due,
          druns, outbox, briefs, topics, feedUrl, rss, triggered>>

envVars == <<version, prefs, topicFeeds, served, topics, feedUrl>>
refreshVars == <<feeds, feedItems, articles, errorLog, runs, cycles, started>>
briefVars == <<briefItems, bruns, bstarted>>
digestVars == <<due, druns, outbox, briefs, rss, triggered>>

-----------------------------------------------------------------------------
(* Bounds of the model *)

MaxTicks == 1
MaxRuns == 2
MaxStarts == 3
MaxCycles == 2
MaxBriefRuns == 2
MaxBriefStarts == 2
MaxTasks == 7
MaxHours == 48
MaxDigestRuns == 2
MaxBriefs == 2
MaxLinks == 3
MaxTopics == 3

(* Program constants, in hours *)
ONE_DAY == 24
ONE_WEEK == 168

StartClock == 10 * ONE_DAY

Users == {"u1", "u2"}
UserOrder == <<"u1", "u2">>
FeedIds == {"f1", "f2"}
RunIds == 1 .. MaxRuns
BriefRunIds == 1 .. MaxBriefRuns
TaskIds == 1 .. MaxTasks
DigestRunIds == 1 .. MaxDigestRuns
BriefIds == 1 .. MaxBriefs

NoUser == "null"
NoLink == "none"
NoDate == 0 - 1
BadDate == 0 - 2
NoStamp == 0 * ONE_DAY

-----------------------------------------------------------------------------
(* Feed payloads: what safeParseRSS returns as items, [link, pubDate] *)

\* the articles of a feed that publishes daily
WeekLinks == <<"p1", "p2", "p3", "p4", "p5", "p6", "p7">>

\* what the extraction and language-model services answer for these articles:
\* a summary, an error, or a page without content
WeekAnswers == <<"ok", "err", "ok", "empty", "ok", "ok", "err">>

\* the answer for a URL; for the other URLs every answer is possible
Answer(url) ==
    IF \E k \in 1 .. Len(WeekLinks) : WeekLinks[k] = url
    THEN WeekAnswers[CHOOSE k \in 1 .. Len(WeekLinks) : WeekLinks[k] = url]
    ELSE "any"

PayloadNames == {"example", "dup", "empty", "edge", "single", "week"}

Payload(p) ==
    CASE p = "example" ->
           << [link |-> "a", pubDate |-> StartClock - 10 * ONE_DAY],
              [link |-> "b", pubDate |-> StartClock - 3 * ONE_DAY],
              [link |-> "c", pubDate |-> StartClock - 1] >>
      [] p = "dup" ->
           << [link |-> "d", pubDate |-> NoDate],
              [link |-> "d", pubDate |-> BadDate] >>
      [] p = "empty" -> << >>
      [] p = "edge" ->
           << [link |-> NoLink, pubDate |-> StartClock - 1],
              [link |-> "b", pubDate |-> StartClock - ONE_WEEK] >>
      [] p = "single" ->
           << [link |-> "e", pubDate |-> StartClock - 2] >>
      [] p = "week" ->
           [k \in 1 .. Len(WeekLinks) |-> [link |-> WeekLinks[k], pubDate |-> StartClock - k]]

-----------------------------------------------------------------------------
(* Pure helpers *)

Range(s) == {s[i] : i \in 1 .. Len(s)}

RECURSIVE Uniq(_)
Uniq(s) ==
    IF s = << >> THEN << >>
    ELSE LET front == Uniq(SubSeq(s, 1, Len(s) - 1))
             last == s[Len(s)]
         IN IF last \in Range(front) THEN front ELSE Append(front, last)

\* new Date(item.pubDate).getTime(), with `now` when absent or NaN
PublishedAt(item, now) ==
    IF item.pubDate = NoDate \/ item.pubDate = BadDate THEN now ELSE item.pubDate

\* mutant: no one-week backfill limit on the first fetch
CutoffDateNoBackfill(updatedAt, now) == updatedAt

\* isFirstFetch ? initialCutOffDay : feed.updatedAt
CutoffDate(updatedAt, now) ==
    IF updatedAt = NoStamp THEN now - ONE_WEEK ELSE updatedAt

\* publishedAt < (cutoffDate || 0)  => continue
BeforeCutoff(publishedAt, cutoff) == publishedAt < cutoff

\* mutant: the lookup by URL finds nothing
ExistsByUrlNever(table, url) == FALSE

\* getExistingFeedItemByUrl / getExistingArticleByUrl
ExistsByUrl(table, url) == \E i \in 1 .. Len(table) : table[i].url = url

-----------------------------------------------------------------------------
(* Local state of one refresh action (updateUserFeeds or updateAllFeeds) *)

IdleRun ==
    [pc |-> "idle", kind |-> "none", userId |-> NoUser, cycle |-> 0, now |-> 0,
     feedIds |-> << >>, validFeeds |-> << >>, fi |-> 0,
     items |-> << >>, ii |-> 0, newFeedItems |-> << >>, ni |-> 0,
     log |-> << >>]

QueuedRun(kind, userId, cycle) ==
    [IdleRun EXCEPT !.pc = "queued", !.kind = kind, !.userId = userId, !.cycle = cycle]

Free(r) == runs[r].pc \in {"idle", "done"}

FreeSlots == SelectSeq([i \in 1 .. MaxRuns |-> i], Free)

\* the feed the action is working on
CurFeed(run) == run.validFeeds[run.fi]

\* continue with the next feed of the for loop, or finish
NextFeed(run, entry) ==
    [run EXCEPT !.pc = IF run.fi = Len(run.validFeeds) THEN "done" ELSE "fetch",
                !.fi = IF run.fi = Len(run.validFeeds) THEN @ ELSE @ + 1,
                !.items = << >>, !.ii = 0, !.newFeedItems = << >>, !.ni = 0,
                !.log = Append(@, entry)]

\* continue with the next item of the feed, or go on to the inserts
NextItem(run, new) ==
    IF run.ii < Len(run.items)
    THEN [run EXCEPT !.pc = "scan", !.ii = @ + 1, !.newFeedItems = new]
    ELSE [run EXCEPT !.pc = IF new = << >> THEN "stamp" ELSE "insert",
                     !.newFeedItems = new, !.ni = 1]

\* getOnboardedUsers
OnboardedUsers == SelectSeq(UserOrder, LAMBDA u : prefs[u].onboarded)

\* getUserTopicFeeds, mapped to tf.feedId
UserFeedIds(u) ==
    LET rows == SelectSeq(topicFeeds, LAMBDA tf : tf.userId = u)
    IN [i \in 1 .. Len(rows) |-> rows[i].feedId]

\* feedFollowCounts of updateAllFeeds
FollowCount(f) ==
    Cardinality({i \in 1 .. Len(topicFeeds) :
                    topicFeeds[i].userId # NoUser /\ topicFeeds[i].feedId = f})

\* Array.from(feedFollowCounts.keys()): feeds with a follower, first occurrence first
FeedsWithFollows ==
    LET rows == SelectSeq(topicFeeds, LAMBDA tf : tf.userId # NoUser)
    IN Uniq([i \in 1 .. Len(rows) |-> rows[i].feedId])

\* the comparator of validFeeds.sort: a goes before b
FeedBefore(a, b) ==
    IF FollowCount(a.id) # FollowCount(b.id)
    THEN FollowCount(b.id) - FollowCount(a.id) < 0
    ELSE a.updatedAt - b.updatedAt < 0

\* insert x into the sorted sequence s, after every element it is not before
RECURSIVE InsertSorted(_, _)
InsertSorted(x, s) ==
    IF s = << >> THEN << x >>
    ELSE IF FeedBefore(x, s[Len(s)])
         THEN Append(InsertSorted(x, SubSeq(s, 1, Len(s) - 1)), s[Len(s)])
         ELSE Append(s, x)

RECURSIVE SortFeeds(_)
SortFeeds(s) ==
    IF s = << >> THEN << >>
    ELSE InsertSorted(s[Len(s)], SortFeeds(SubSeq(s, 1, Len(s) - 1)))

-----------------------------------------------------------------------------
(* Local state of one updateUserBriefs action *)

\* pLimit(5) of updateUserBriefs
ConcurrencyLimit == 5

IdleBrief ==
    [pc |-> "idle", userId |-> NoUser, style |-> "none",
     feedItemIds |-> << >>, tasks |-> << >>, result |-> << >>]

\* a task of the pLimit queue: the feed item, where it stands, the id saveBriefItem returned
QueuedTask(item) == [item |-> item, st |-> "queued", briefId |-> 0]

InFlight(tasks) == {k \in 1 .. Len(tasks) : tasks[k].st = "active"}

Settled(tasks) == \A k \in 1 .. Len(tasks) : tasks[k].st \in {"ok", "null", "threw"}

BriefFree(b) ==
    \/ bruns[b].pc \in {"idle", "returned"}
    \/ bruns[b].pc = "raised" /\ Settled(bruns[b].tasks)

FreeBriefSlots == SelectSeq([i \in 1 .. MaxBriefRuns |-> i], BriefFree)

\* mutant: every queued task starts at once
AdmitAll(tasks) ==
    [k \in 1 .. Len(tasks) |->
       IF tasks[k].st = "queued" THEN [tasks[k] EXCEPT !.st = "active"] ELSE tasks[k]]

\* p-limit: start queued tasks, first come first, while fewer than the limit are active
Admit(tasks) ==
    LET room == ConcurrencyLimit - Cardinality(InFlight(tasks))
        ahead(k) == Cardinality({j \in 1 .. k - 1 : tasks[j].st = "queued"})
    IN [k \in 1 .. Len(tasks) |->
          IF tasks[k].st = "queued" /\ ahead(k) < room
          THEN [tasks[k] EXCEPT !.st = "active"]
          ELSE tasks[k]]

\* the feedItems rows of one feed published after `since`, index order descending
RECURSIVE DescSeq(_)
DescSeq(S) ==
    IF S = {} THEN << >>
    ELSE LET m == CHOOSE x \in S : \A y \in S :
                      \/ feedItems[x].publishedAt > feedItems[y].publishedAt
                      \/ feedItems[x].publishedAt = feedItems[y].publishedAt /\ x >= y
         IN << m >> \o DescSeq(S \ {m})

ItemsOfFeed(f, since) ==
    {i \in 1 .. Len(feedItems) :
        feedItems[i].feedId = f /\ feedItems[i].publishedAt > since}

RECURSIVE ConcatItems(_, _)
ConcatItems(fids, since) ==
    IF fids = << >> THEN << >>
    ELSE DescSeq(ItemsOfFeed(Head(fids), since)) \o ConcatItems(Tail(fids), since)

\* allFeedItems.sort((a, b) => b.publishedAt - a.publishedAt), a stable sort
RECURSIVE InsertDesc(_, _)
InsertDesc(x, s) ==
    IF s = << >> THEN << x >>
    ELSE IF feedItems[x].publishedAt > feedItems[s[Len(s)]].publishedAt
         THEN Append(InsertDesc(x, SubSeq(s, 1, Len(s) - 1)), s[Len(s)])
         ELSE Append(s, x)

RECURSIVE SortDesc(_)
SortDesc(s) ==
    IF s = << >> THEN << >>
    ELSE InsertDesc(s[Len(s)], SortDesc(SubSeq(s, 1, Len(s) - 1)))

\* getUserFeedItems: ids of the feed items of the feeds the user follows
GetUserFeedItems(u, since) == SortDesc(ConcatItems(UserFeedIds(u), since))

\* mutant: the idempotence guard finds nothing
GetExistingBriefItemsNone(u, ids) == {}

\* getExistingBriefItems
GetExistingBriefItems(u, ids) ==
    {briefItems[i].feedItemId : i \in {j \in 1 .. Len(briefItems) :
        briefItems[j].userId = u /\ briefItems[j].feedItemId \in Range(ids)}}

\* the briefItems rows of the pair (user, feedItem)
BriefRows(table, u, item) ==
    {i \in 1 .. Len(table) : table[i].userId = u /\ table[i].feedItemId = item}

\* mutant: saveBriefItem without the lookup by_user_and_feedItem
SaveBriefItemNoLookup(table, u, item) ==
    Append(table, [userId |-> u, feedItemId |-> item, createdAt |-> clock])

\* saveBriefItem: the table after the mutation
SaveBriefItem(table, u, item) ==
    IF BriefRows(table, u, item) # {}
    THEN table
    ELSE Append(table, [userId |-> u, feedItemId |-> item, createdAt |-> clock])

\* saveBriefItem: the id the mutation returns
SavedBriefId(before, after, u, item) ==
    IF BriefRows(before, u, item) # {}
    THEN CHOOSE i \in BriefRows(before, u, item) : \A j \in BriefRows(before, u, item) : i <= j
    ELSE Len(after)

-----------------------------------------------------------------------------
(* Initial state *)

\* u1 and u2 follow the same topic; u1 follows a second topic with another feed
SharedTopic ==
    << [userId |-> NoUser, topicId |-> "t1", feedId |-> "f1"],
       [userId |-> "u1", topicId |-> "t1", feedId |-> "f1"],
       [userId |-> "u2", topicId |-> "t1", feedId |-> "f1"],
       [userId |-> "u1", topicId |-> "t2", feedId |-> "f2"] >>

\* u1 follows two topics that carry the same feed
SharedFeed ==
    << [userId |-> NoUser, topicId |-> "t1", feedId |-> "f1"],
       [userId |-> "u1", topicId |-> "t1", feedId |-> "f1"],
       [userId |-> "u1", topicId |-> "t2", feedId |-> "f1"],
       [userId |-> "u2", topicId |-> "t3", feedId |-> "f2"] >>

LinkConfigs == {SharedTopic, SharedFeed}

Serve(p1, p2) == [f \in FeedIds |-> IF f = "f1" THEN p1 ELSE p2]

\* what the two feed URLs serve
ServedConfigs ==
    {Serve("example", "empty"), Serve("dup", "edge"), Serve("edge", "example")}

\* the links and payloads of the brief-compile runs
BriefConfigs ==
    { <<SharedTopic, Serve("example", "single")>>,
      <<SharedTopic, Serve("dup", "edge")>>,
      <<SharedFeed, Serve("single", "example")>> }

DefaultPrefs ==
    [onboarded |-> TRUE, email |-> TRUE, style |-> "concise",
     hour |-> 9, dayOfWeek |-> 0, timezone |-> 0]

\* local state of one generateScheduledWeeklyDigests action
IdleDigest ==
    [pc |-> "idle", at |-> 0, users |-> << >>, eligible |-> {}, tasks |-> << >>]

\* ids of the topics and feeds tables, in the order they are handed out
TopicIdSeq == <<"t1", "t2", "t3", "t4">>
TopicIds == Range(TopicIdSeq)
FeedRowSeq == <<"f1", "f2", "f3", "f4">>
FeedRowIds == Range(FeedRowSeq)
NoFeedRow == "nofeed"
NoTopic == [st |-> "free", userId |-> NoUser, name |-> ""]
TopicNames == [t \in TopicIds |-> CASE t = "t1" -> "tech" [] t = "t2" -> "art"
                                     [] t = "t3" -> "cars" [] OTHER -> "news"]
UrlOf == [f \in FeedIds |-> IF f = "f1" THEN "url1" ELSE "url2"]

\* the topics table that goes with a topicFeeds table: a topic with a curated
\* link is curated, any other linked topic belongs to the user of its link
TopicsOf(tf) ==
    [t \in TopicIds |->
        LET rows == {i \in 1 .. Len(tf) : tf[i].topicId = t}
        IN IF rows = {} THEN NoTopic
           ELSE [st |-> "live",
                 userId |-> IF \E i \in rows : tf[i].userId = NoUser THEN NoUser
                            ELSE tf[CHOOSE i \in rows : TRUE].userId,
                 name |-> TopicNames[t]]]

\* the feeds table with the two feeds of the curated import
KnownFeeds == [f \in FeedRowIds |-> IF f \in FeedIds THEN UrlOf[f] ELSE NoLink]

\* safeParseRSS has not been called
NoItems == [kind |-> "absent", list |-> << >>]
NoBody == [kind |-> "none", item |-> NoItems]
NoCall == [met |-> [http |-> "none", body |-> NoBody],
           out |-> [kind |-> "none", step |-> "", message |-> "", items |-> << >>]]

\* generateScheduledBriefs is not running
IdleSched ==
    [pc |-> "idle", at |-> 0, offset |-> 0, pending |-> << >>, log |-> << >>]

\* no action is running and nothing has been logged or sent
InitIdle ==
    /\ articles = << >>
    /\ runs = [r \in RunIds |-> IdleRun]
    /\ errorLog = {}
    /\ cycles = 0
    /\ started = 0
    /\ bruns = [b \in BriefRunIds |-> IdleBrief]
    /\ bstarted = 0
    /\ due = [at |-> 0, users |-> << >>]
    /\ druns = [d \in DigestRunIds |-> IdleDigest]
    /\ outbox = << >>
    /\ briefs = << >>
    /\ rss = NoCall
    /\ triggered = IdleSched

\* empty tables, nothing running
InitTables ==
    /\ topics = TopicsOf(topicFeeds)
    /\ feedUrl = KnownFeeds
    /\ feeds = [f \in FeedIds |-> NoStamp]
    /\ feedItems = << >>
    /\ briefItems = << >>
    /\ InitIdle

Init ==
    /\ clock = StartClock
    /\ version \in {"userFeeds", "allFeeds"}
    /\ prefs = [u \in Users |-> DefaultPrefs]
    /\ topicFeeds \in LinkConfigs
    /\ served \in ServedConfigs
    /\ InitTables

-----------------------------------------------------------------------------
(* The clock *)

Tick ==
    /\ clock < StartClock + MaxTicks
    /\ clock' = clock + 1
    /\ UNCHANGED <<envVars, refreshVars, briefVars, digestVars>>

-----------------------------------------------------------------------------
(* Starting refresh actions *)

\* updateFeedsAndGenerateBriefs: one updateUserFeeds per onboarded user
CronFire ==
    /\ version = "userFeeds"
    /\ cycles < MaxCycles
    /\ Len(OnboardedUsers) > 0
    /\ Len(FreeSlots) >= Len(OnboardedUsers)
    /\ started + Len(OnboardedUsers) <= MaxStarts
    /\ cycles' = cycles + 1
    /\ started' = started + Len(OnboardedUsers)
    /\ runs' = [r \in RunIds |->
                  IF \E k \in 1 .. Len(OnboardedUsers) : FreeSlots[k] = r
                  THEN LET k == CHOOSE k \in 1 .. Len(OnboardedUsers) : FreeSlots[k] = r
                       IN QueuedRun("user", OnboardedUsers[k], cycles + 1)
                  ELSE runs[r]]
    /\ UNCHANGED <<clock, envVars, feeds, feedItems, articles, errorLog, briefVars,
                   digestVars>>

\* triggerFeedUpdateAndBriefGeneration -> processUserFeedsAndBriefs
ManualTrigger(u) ==
    /\ version = "userFeeds"
    /\ Len(FreeSlots) > 0
    /\ started < MaxStarts
    /\ started' = started + 1
    /\ runs' = [runs EXCEPT ![FreeSlots[1]] = QueuedRun("user", u, 0)]
    /\ UNCHANGED <<clock, envVars, feeds, feedItems, articles, errorLog, cycles,
                   briefVars, digestVars>>

\* the cron job of the older engine: updateAllFeeds
AllFire ==
    /\ version = "allFeeds"
    /\ cycles < MaxCycles
    /\ Len(FreeSlots) > 0
    /\ started < MaxStarts
    /\ cycles' = cycles + 1
    /\ started' = started + 1
    /\ runs' = [runs EXCEPT ![FreeSlots[1]] = QueuedRun("all", NoUser, cycles + 1)]
    /\ UNCHANGED <<clock, envVars, feeds, feedItems, articles, errorLog, briefVars,
                   digestVars>>

-----------------------------------------------------------------------------
(* The steps of updateUserFeeds and updateAllFeeds, one per await *)

static == <<envVars, cycles, started, briefVars, digestVars>>

\* const now = Date.now(); the topicFeeds query; return when there is no feed
Begin(r) ==
    LET run == runs[r]
        ids == IF run.kind = "user" THEN UserFeedIds(run.userId) ELSE FeedsWithFollows
    IN /\ run.pc = "queued"
       /\ runs' = [runs EXCEPT ![r] =
                     [run EXCEPT !.pc = IF ids = << >> THEN "done" ELSE "load",
                                 !.now = clock, !.feedIds = ids]]
       /\ UNCHANGED <<clock, feeds, feedItems, articles, errorLog, static>>

\* one getFeedById of the Promise.all; after the last one, the sort of updateAllFeeds
LoadFeed(r) ==
    LET run == runs[r]
        id == run.feedIds[Len(run.validFeeds) + 1]
        loaded == Append(run.validFeeds, [id |-> id, updatedAt |-> feeds[id]])
    IN /\ run.pc = "load"
       /\ runs' = [runs EXCEPT ![r] =
                     IF Len(loaded) < Len(run.feedIds)
                     THEN [run EXCEPT !.validFeeds = loaded]
                     ELSE [run EXCEPT !.pc = "fetch", !.fi = 1,
                                      !.validFeeds = IF run.kind = "all"
                                                     THEN SortFeeds(loaded) ELSE loaded]]
       /\ UNCHANGED <<clock, feeds, feedItems, articles, errorLog, static>>

\* safeParseRSS returns an error: continue with the next feed
FetchErr(r) ==
    LET run == runs[r]
    IN /\ run.pc = "fetch"
       /\ runs' = [runs EXCEPT ![r] = NextFeed(run, "err")]
       /\ UNCHANGED <<clock, feeds, feedItems, articles, errorLog, static>>

\* safeParseRSS returns the items; continue with the next feed when there is none
FetchOk(r) ==
    LET run == runs[r]
        items == Payload(served[CurFeed(run).id])
    IN /\ run.pc = "fetch"
       /\ runs' = [runs EXCEPT ![r] =
                     IF Len(items) = 0
                     THEN NextFeed(run, "empty")
                     ELSE [run EXCEPT !.pc = "scan", !.items = items, !.ii = 1]]
       /\ UNCHANGED <<clock, feeds, feedItems, articles, errorLog, static>>

\* the row the loop builds for an item
NewRow(run, item) ==
    [url |-> item.link, feedId |-> CurFeed(run).id,
     publishedAt |-> PublishedAt(item, run.now)]

\* the item is skipped before content extraction
Skipped(run, item) ==
    \/ item.link = NoLink
    \/ BeforeCutoff(PublishedAt(item, run.now),
                    CutoffDate(CurFeed(run).updatedAt, run.now))
    \/ ExistsByUrl(IF run.kind = "user" THEN feedItems ELSE articles, item.link)

\* one iteration of `for (const item of items)`, up to the push (updateUserFeeds)
\* or up to the content-extraction request (updateAllFeeds)
ScanItem(r) ==
    LET run == runs[r]
        item == run.items[run.ii]
    IN /\ run.pc = "scan"
       /\ runs' = [runs EXCEPT ![r] =
                     IF Skipped(run, item)
                     THEN NextItem(run, run.newFeedItems)
                     ELSE IF run.kind = "user"
                          THEN NextItem(run, Append(run.newFeedItems, NewRow(run, item)))
                          ELSE [run EXCEPT !.pc = "extract"]]
       /\ UNCHANGED <<clock, feeds, feedItems, articles, errorLog, static>>

\* updateAllFeeds: the extraction request answers with the content
ExtractOk(r) ==
    LET run == runs[r]
    IN /\ run.pc = "extract"
       /\ runs' = [runs EXCEPT ![r] =
                     NextItem(run, Append(run.newFeedItems, NewRow(run, run.items[run.ii])))]
       /\ UNCHANGED <<clock, feeds, feedItems, articles, errorLog, static>>

\* updateAllFeeds: the extraction request fails (not ok, or throws): continue
ExtractFail(r) ==
    LET run == runs[r]
    IN /\ run.pc = "extract"
       /\ runs' = [runs EXCEPT ![r] = NextItem(run, run.newFeedItems)]
       /\ errorLog' = errorLog \cup {run.items[run.ii].link}
       /\ UNCHANGED <<clock, feeds, feedItems, articles, static>>

\* insertFeedItem / insertArticle: ctx.db.insert
InsertRow(table, row) == Append(table, row)

\* mutant: the checkpoint written together with the insert
InsertItemAndStamp(r) ==
    LET run == runs[r]
        row == run.newFeedItems[run.ni]
    IN /\ run.pc = "insert"
       /\ IF run.kind = "user"
          THEN feedItems' = Append(feedItems, row) /\ UNCHANGED articles
          ELSE articles' = Append(articles, row) /\ UNCHANGED feedItems
       /\ feeds' = [feeds EXCEPT ![CurFeed(run).id] = run.now]
       /\ runs' = [runs EXCEPT ![r] =
                     IF run.ni < Len(run.newFeedItems)
                     THEN [run EXCEPT !.ni = @ + 1]
                     ELSE [run EXCEPT !.pc = "stamp"]]
       /\ UNCHANGED <<clock, errorLog, static>>

\* one iteration of `for (const feedItem of newFeedItems)`
InsertItem(r) ==
    LET run == runs[r]
        row == run.newFeedItems[run.ni]
    IN /\ run.pc = "insert"
       /\ IF run.kind = "user"
          THEN feedItems' = InsertRow(feedItems, row) /\ UNCHANGED articles
          ELSE articles' = InsertRow(articles, row) /\ UNCHANGED feedItems
       /\ runs' = [runs EXCEPT ![r] =
                     IF run.ni < Len(run.newFeedItems)
                     THEN [run EXCEPT !.ni = @ + 1]
                     ELSE [run EXCEPT !.pc = "stamp"]]
       /\ UNCHANGED <<clock, feeds, errorLog, static>>

\* updateFeedTimestamp: ctx.db.patch(feedId, { updatedAt })
PatchUpdatedAt(old, updatedAt) == updatedAt

\* the updateFeedTimestamp at the end of the feed's iteration
Stamp(r) ==
    LET run == runs[r]
        f == CurFeed(run).id
    IN /\ run.pc = "stamp"
       /\ feeds' = [feeds EXCEPT ![f] = PatchUpdatedAt(@, run.now)]
       /\ runs' = [runs EXCEPT ![r] = NextFeed(run, "stamped")]
       /\ UNCHANGED <<clock, feedItems, articles, errorLog, static>>

-----------------------------------------------------------------------------
(* The refresh engine under concurrent firings *)

Step(r) ==
    \/ Begin(r)
    \/ LoadFeed(r)
    \/ FetchErr(r)
    \/ FetchOk(r)
    \/ ScanItem(r)
    \/ ExtractOk(r)
    \/ ExtractFail(r)
    \/ InsertItem(r)
    \/ Stamp(r)

Next ==
    \/ Tick
    \/ CronFire
    \/ \E u \in Users : ManualTrigger(u)
    \/ AllFire
    \/ \E r \in RunIds : Step(r)

Spec == Init /\ [][Next]_vars

-----------------------------------------------------------------------------
(* The refresh engine with one refresh action at a time *)

NoneInFlight == \A r \in RunIds : Free(r)

NextSeq ==
    \/ Tick
    \/ \E u \in Users : NoneInFlight /\ ManualTrigger(u)
    \/ NoneInFlight /\ AllFire
    \/ \E r \in RunIds : Step(r)

SpecSeq == Init /\ [][NextSeq]_vars

-----------------------------------------------------------------------------
(* Properties of the refresh engine *)

Urls(table) == {table[i].url : i \in 1 .. Len(table)}

Scanning(run) == run.pc \in {"scan", "extract", "insert", "stamp"}

\* the feeds a refresh action has requested with safeParseRSS so far
Fetched(r) ==
    {i \in 1 .. Len(runs[r].validFeeds) :
        \/ i <= Len(runs[r].log)
        \/ i = runs[r].fi /\ Scanning(runs[r])}

FetchCount(c, f) ==
    Cardinality(UNION {{<<r, i>> : i \in {k \in Fetched(r) : runs[r].validFeeds[k].id = f}} :
                          r \in {q \in RunIds : runs[q].cycle = c}})

\* C1: no two Feed Item rows have the same URL
C1_NoDuplicateFeedItemUrl ==
    \A i, j \in 1 .. Len(feedItems) :
        i # j => feedItems[i].url # feedItems[j].url

\* C4: the checkpoint of a feed never decreases, whatever refresh actions interleave
C4_CheckpointNeverDecreases ==
    [][\A f \in FeedIds : feeds'[f] >= feeds[f]]_vars

\* C7: when a refresh action leaves a feed whose payload was fetched and parsed
\* successfully, that step has set the feed's checkpoint to the action's `now`
C7_CheckpointSetAfterEverySuccessfulFetch ==
    [][\A r \in RunIds :
          (/\ runs[r].pc \in {"fetch", "scan", "extract", "insert", "stamp"}
           /\ runs'[r].log # runs[r].log
           /\ runs'[r].log[Len(runs'[r].log)] # "err")
          => feeds'[CurFeed(runs[r]).id] = runs[r].now]_vars

\* C8: within one firing of the cron job every feed is fetched and parsed at most once
C8_FeedFetchedOncePerCycle ==
    \A c \in 1 .. cycles : \A f \in FeedIds : FetchCount(c, f) <= 1

\* the table a refresh action checks and fills
Table(run) == IF run.kind = "user" THEN feedItems ELSE articles

\* C2: a refresh action that runs after an earlier one has completed the feed (the
\* snapshot of the feed holds a checkpoint), against the same payload, inserts nothing
C2_SecondRunInsertsNothing ==
    \A r \in RunIds :
        runs[r].pc = "insert" => CurFeed(runs[r]).updatedAt = NoStamp

\* C2 (amended): updateUserFeeds inserts nothing in such a second run, and
\* updateAllFeeds inserts only items whose content extraction had failed before
C2_SecondRunInsertsOnlyFailedExtractions ==
    \A r \in RunIds :
        (runs[r].pc = "insert" /\ CurFeed(runs[r]).updatedAt # NoStamp)
        => /\ runs[r].kind = "all"
           /\ Urls(runs[r].newFeedItems) \subseteq errorLog

\* C2 (witness): a second updateUserFeeds run has scanned a feed that holds a
\* checkpoint; an item passed the cutoff, was found stored, and nothing is inserted
C2_Witness ==
    \E r \in RunIds :
        /\ runs[r].kind = "user"
        /\ runs[r].pc = "stamp"
        /\ CurFeed(runs[r]).updatedAt # NoStamp
        /\ runs[r].newFeedItems = << >>
        /\ \E i \in 1 .. Len(runs[r].items) :
              /\ runs[r].items[i].link # NoLink
              /\ PublishedAt(runs[r].items[i], runs[r].now) >= CurFeed(runs[r]).updatedAt

\* C5: the cutoff is the checkpoint the action read, else now - 7 days; a row is
\* collected for insertion only if its publishedAt >= cutoff, and once the scan of
\* the feed is over every item with a link and publishedAt >= cutoff is collected,
\* unless its URL is already stored or its content extraction failed
C5_CutoffDecidesIngestion ==
    \A r \in RunIds :
        Scanning(runs[r]) =>
            LET run == runs[r]
                cutoff == IF CurFeed(run).updatedAt = NoStamp
                          THEN run.now - 7 * ONE_DAY
                          ELSE CurFeed(run).updatedAt
                dated(item) == IF item.pubDate >= 0 THEN item.pubDate ELSE run.now
            IN /\ \A k \in 1 .. Len(run.newFeedItems) :
                      run.newFeedItems[k].publishedAt >= cutoff
               /\ run.pc \in {"insert", "stamp"} =>
                      \A i \in 1 .. Len(run.items) :
                          (run.items[i].link # NoLink /\ dated(run.items[i]) >= cutoff)
                          => run.items[i].link \in
                                 Urls(run.newFeedItems) \cup Urls(Table(run)) \cup errorLog

\* C28: when updateUserFeeds has inserted the rows of a feed F and is about to
\* write F's checkpoint, every item of the payload with a link and a publishedAt
\* at or after the cutoff is a feedItems row of F
C28_PayloadItemStoredForItsFeed ==
    \A r \in RunIds :
        (runs[r].kind = "user" /\ runs[r].pc = "stamp") =>
            LET run == runs[r]
                cutoff == IF CurFeed(run).updatedAt = NoStamp
                          THEN run.now - 7 * ONE_DAY
                          ELSE CurFeed(run).updatedAt
            IN \A i \in 1 .. Len(run.items) :
                  (run.items[i].link # NoLink /\ PublishedAt(run.items[i], run.now) >= cutoff)
                  => \E k \in 1 .. Len(feedItems) :
                        /\ feedItems[k].url = run.items[i].link
                        /\ feedItems[k].feedId = CurFeed(run).id

\* C5 (witness): a never-fetched feed with items 10 days, 3 days and 1 hour old has
\* been scanned, and exactly the 3-day and the 1-hour item are collected
C5_Witness ==
    \E r \in RunIds :
        /\ runs[r].pc = "insert"
        /\ CurFeed(runs[r]).updatedAt = NoStamp
        /\ [i \in 1 .. Len(runs[r].items) |-> runs[r].now - runs[r].items[i].pubDate]
               = << 10 * ONE_DAY, 3 * ONE_DAY, 1 >>
        /\ [i \in 1 .. Len(runs[r].newFeedItems) |-> runs[r].newFeedItems[i].url]
               = << "b", "c" >>

\* C6: a feed whose fetch fails gets no insert and no checkpoint from that step, and
\* when the action ends every other feed of the run has been processed to the end,
\* checkpoint included
C6_FailedFeedIsolated ==
    [][\A r \in RunIds :
          /\ (runs[r].pc = "fetch" /\ runs'[r].log = Append(runs[r].log, "err"))
                => (feeds' = feeds /\ feedItems' = feedItems /\ articles' = articles)
          /\ (runs[r].pc # "done" /\ runs'[r].pc = "done"
                /\ \E i \in 1 .. Len(runs'[r].log) : runs'[r].log[i] = "err")
                => /\ Len(runs'[r].log) = Len(runs'[r].validFeeds)
                   /\ \A j \in 1 .. Len(runs'[r].log) :
                          runs'[r].log[j] # "err" => runs'[r].log[j] = "stamped"]_vars

-----------------------------------------------------------------------------
(* The steps of updateUserBriefs, one per await *)

briefStatic == <<clock, envVars, refreshVars, digestVars>>

\* ctx.runAction(internal.briefs.updateUserBriefs, { userId })
StartBriefs(u) ==
    /\ Len(FreeBriefSlots) > 0
    /\ bstarted < MaxBriefStarts
    /\ bstarted' = bstarted + 1
    /\ bruns' = [bruns EXCEPT ![FreeBriefSlots[1]] =
                    [IdleBrief EXCEPT !.pc = "prefs", !.userId = u]]
    /\ UNCHANGED <<briefItems, briefStatic>>

\* getUserPreferenceQuery
BriefPrefs(b) ==
    /\ bruns[b].pc = "prefs"
    /\ bruns' = [bruns EXCEPT ![b] =
                    [@ EXCEPT !.pc = "items", !.style = prefs[bruns[b].userId].style]]
    /\ UNCHANGED <<briefItems, bstarted, briefStatic>>

\* oneWeekAgo = Date.now() - ONE_WEEK; getUserFeedItems
BriefItems(b) ==
    /\ bruns[b].pc = "items"
    /\ bruns' = [bruns EXCEPT ![b] =
                    [@ EXCEPT !.pc = "existing",
                              !.feedItemIds = GetUserFeedItems(bruns[b].userId, clock - ONE_WEEK)]]
    /\ UNCHANGED <<briefItems, bstarted, briefStatic>>

\* getExistingBriefItems, the filter, and the map over pLimit(5)
BriefExisting(b) ==
    LET run == bruns[b]
        existing == GetExistingBriefItems(run.userId, run.feedItemIds)
        toProcess == SelectSeq(run.feedItemIds, LAMBDA i : i \notin existing)
    IN /\ run.pc = "existing"
       /\ Len(toProcess) <= MaxTasks
       /\ bruns' = [bruns EXCEPT ![b] =
                       [run EXCEPT !.pc = "tasks",
                                   !.tasks = Admit([k \in 1 .. Len(toProcess) |->
                                                       QueuedTask(toProcess[k])])]]
       /\ UNCHANGED <<briefItems, bstarted, briefStatic>>

TaskAt(b, k, st) ==
    /\ bruns[b].pc \in {"tasks", "raised"}
    /\ k \in 1 .. Len(bruns[b].tasks)
    /\ bruns[b].tasks[k].st = st

\* the services answer `answer` for the feed item of the task
Answers(b, k, answer) ==
    Answer(feedItems[bruns[b].tasks[k].item].url) \in {answer, "any"}

\* the task moves on; when it has settled p-limit starts the next queued one
TaskTo(b, k, st, id) ==
    bruns' = [bruns EXCEPT ![b].tasks =
                 Admit([@ EXCEPT ![k] = [@ EXCEPT !.st = st, !.briefId = id]])]

\* processFeedItem returns an error, from safeExtractContent or from
\* safeGenerateText: the task resolves to null
ProcessErr(b, k) ==
    /\ TaskAt(b, k, "active")
    /\ Answers(b, k, "err")
    /\ TaskTo(b, k, "null", 0)
    /\ UNCHANGED <<briefItems, bstarted, briefStatic>>

\* safeExtractContent returns content that is empty: createPrompt throws and
\* processFeedItem rejects
ProcessThrow(b, k) ==
    /\ TaskAt(b, k, "active")
    /\ Answers(b, k, "empty")
    /\ TaskTo(b, k, "threw", 0)
    /\ UNCHANGED <<briefItems, bstarted, briefStatic>>

\* processFeedItem returns the summary and the saveBriefItem mutation runs;
\* the task resolves to the processed item
ProcessAndSave(b, k) ==
    LET u == bruns[b].userId
        item == bruns[b].tasks[k].item
    IN /\ TaskAt(b, k, "active")
       /\ Answers(b, k, "ok")
       /\ briefItems' = SaveBriefItem(briefItems, u, item)
       /\ TaskTo(b, k, "ok", SavedBriefId(briefItems, briefItems', u, item))
       /\ UNCHANGED <<bstarted, briefStatic>>

\* Promise.all resolves: the handler returns the items that are not null
BriefReturn(b) ==
    LET run == bruns[b]
        done == SelectSeq(run.tasks, LAMBDA t : t.st = "ok")
    IN /\ run.pc = "tasks"
       /\ \A k \in 1 .. Len(run.tasks) : run.tasks[k].st \in {"ok", "null"}
       /\ bruns' = [bruns EXCEPT ![b] =
                       [run EXCEPT !.pc = "returned",
                                   !.result = [k \in 1 .. Len(done) |-> done[k].item]]]
       /\ UNCHANGED <<briefItems, bstarted, briefStatic>>

\* Promise.all rejects with the first task that threw: the handler throws
BriefRaise(b) ==
    /\ bruns[b].pc = "tasks"
    /\ \E k \in 1 .. Len(bruns[b].tasks) : bruns[b].tasks[k].st = "threw"
    /\ bruns' = [bruns EXCEPT ![b].pc = "raised"]
    /\ UNCHANGED <<briefItems, bstarted, briefStatic>>

BriefStep(b) ==
    \/ BriefPrefs(b)
    \/ BriefItems(b)
    \/ BriefExisting(b)
    \/ BriefReturn(b)
    \/ BriefRaise(b)

\* one task of the pLimit queue settles
TaskStep(b, k) ==
    \/ ProcessErr(b, k)
    \/ ProcessThrow(b, k)
    \/ ProcessAndSave(b, k)

\* the steps of updateUserFeeds
UserStep(r) ==
    \/ Begin(r)
    \/ LoadFeed(r)
    \/ FetchErr(r)
    \/ FetchOk(r)
    \/ ScanItem(r)
    \/ InsertItem(r)
    \/ Stamp(r)

\* processUserFeedsAndBriefs: one updateUserFeeds, then updateUserBriefs actions
InitBriefs ==
    /\ clock = StartClock
    /\ version = "userFeeds"
    /\ prefs = [u \in Users |-> DefaultPrefs]
    /\ \E cfg \in BriefConfigs : topicFeeds = cfg[1] /\ served = cfg[2]
    /\ InitTables

NextBriefs ==
    \/ \E u \in Users : started = 0 /\ bstarted = 0 /\ ManualTrigger(u)
    \/ \E r \in RunIds : UserStep(r)
    \/ \E u \in Users : NoneInFlight /\ StartBriefs(u)
    \/ \E b \in BriefRunIds : BriefStep(b)
    \/ \E b \in BriefRunIds : \E k \in TaskIds : TaskStep(b, k)

SpecBriefs == InitBriefs /\ [][NextBriefs]_vars

-----------------------------------------------------------------------------
(* Which feed items a compile run takes up *)

\* the feed items of the feeds u follows, published in the last 7 days, that have
\* no brief item of u
Eligible(u) ==
    {i \in 1 .. Len(feedItems) :
        /\ \E k \in 1 .. Len(topicFeeds) :
              topicFeeds[k].userId = u /\ topicFeeds[k].feedId = feedItems[i].feedId
        /\ feedItems[i].publishedAt > clock - ONE_WEEK
        /\ \A j \in 1 .. Len(briefItems) :
              ~(briefItems[j].userId = u /\ briefItems[j].feedItemId = i)}

TaskItems(run) == {run.tasks[k].item : k \in 1 .. Len(run.tasks)}

\* C29: the feed items that updateUserBriefs hands to processFeedItem are exactly
\* those of a followed feed, published within the last 7 days, without a brief
\* item of the user when the run selects; so an item with a brief item is not
\* taken again and an item whose processing failed is taken again by the next run.
C29_ProcessedIffFollowedRecentAndUnbriefed ==
    [][\A b \in BriefRunIds :
          (bruns[b].pc = "existing" /\ bruns'[b].pc = "tasks")
          => TaskItems(bruns'[b]) = Eligible(bruns[b].userId)]_vars

\* C29 (witness): a run of the user has returned with one item saved and one
\* dropped by a failure; the next run of the user has taken the dropped item and
\* not the saved one
C29_Witness ==
    \E b1, b2 \in BriefRunIds :
        /\ bruns[b1].pc = "returned"
        /\ bruns[b2].pc = "tasks"
        /\ bruns[b2].userId = bruns[b1].userId
        /\ \E k \in 1 .. Len(bruns[b1].tasks) :
              /\ bruns[b1].tasks[k].st = "null"
              /\ bruns[b1].tasks[k].item \in TaskItems(bruns[b2])
        /\ \E k \in 1 .. Len(bruns[b1].tasks) :
              /\ bruns[b1].tasks[k].st = "ok"
              /\ bruns[b1].tasks[k].item \notin TaskItems(bruns[b2])
              /\ bruns[b1].result # << >>

-----------------------------------------------------------------------------
(* One updateUserBriefs action over a batch larger than its pool *)

InitPool ==
    /\ clock = StartClock
    /\ version = "userFeeds"
    /\ prefs = [u \in Users |-> DefaultPrefs]
    /\ topicFeeds = SharedTopic
    /\ served = Serve("week", "empty")
    /\ InitTables

NextPool ==
    \/ \E u \in Users : started = 0 /\ ManualTrigger(u)
    \/ \E r \in RunIds : UserStep(r)
    \/ \E u \in Users : NoneInFlight /\ bstarted = 0 /\ StartBriefs(u)
    \/ \E b \in BriefRunIds : BriefStep(b)
    \/ \E b \in BriefRunIds : \E k \in TaskIds : TaskStep(b, k)

SpecPool == InitPool /\ [][NextPool]_vars

\* every call to the extraction or the language-model service ends (timeouts)
SpecPoolFair ==
    SpecPool /\ \A b \in BriefRunIds : \A k \in TaskIds : WF_vars(TaskStep(b, k))

-----------------------------------------------------------------------------
(* One firing of updateFeedsAndGenerateBriefs: per user, feeds then briefs *)

\* mutant: the compile step does not wait for the refresh of the user
ThenBriefsEarly(r) ==
    /\ runs[r].pc = "queued"
    /\ Len(FreeBriefSlots) > 0
    /\ runs' = [runs EXCEPT ![r] = IdleRun]
    /\ bstarted' = bstarted + 1
    /\ bruns' = [bruns EXCEPT ![FreeBriefSlots[1]] =
                    [IdleBrief EXCEPT !.pc = "prefs", !.userId = runs[r].userId]]
    /\ UNCHANGED <<clock, envVars, feeds, feedItems, articles, errorLog, cycles,
                   started, briefItems, digestVars>>

\* updateUserFeeds of a user has returned: the user's task calls updateUserBriefs
ThenBriefs(r) ==
    /\ runs[r].pc = "done"
    /\ Len(FreeBriefSlots) > 0
    /\ runs' = [runs EXCEPT ![r] = IdleRun]
    /\ bstarted' = bstarted + 1
    /\ bruns' = [bruns EXCEPT ![FreeBriefSlots[1]] =
                    [IdleBrief EXCEPT !.pc = "prefs", !.userId = runs[r].userId]]
    /\ UNCHANGED <<clock, envVars, feeds, feedItems, articles, errorLog, cycles,
                   started, briefItems, digestVars>>

InitCron ==
    /\ clock = StartClock
    /\ version = "userFeeds"
    /\ prefs = [u \in Users |-> DefaultPrefs]
    /\ topicFeeds = SharedFeed
    /\ served = Serve("example", "dup")
    /\ InitTables

NextCron ==
    \/ cycles = 0 /\ CronFire
    \/ \E r \in RunIds : UserStep(r)
    \/ \E r \in RunIds : ThenBriefs(r)
    \/ \E b \in BriefRunIds : BriefStep(b)
    \/ \E b \in BriefRunIds : \E k \in TaskIds : TaskStep(b, k)

SpecCron == InitCron /\ [][NextCron]_vars

\* both users follow the feed with one recent item; u1 also follows an empty feed
InitCronFair ==
    /\ clock = StartClock
    /\ version = "userFeeds"
    /\ prefs = [u \in Users |-> DefaultPrefs]
    /\ topicFeeds = SharedTopic
    /\ served = Serve("single", "empty")
    /\ InitTables

\* the job fires once; a manual trigger (processUserFeedsAndBriefs) comes when
\* the job's refreshes have been handed over
NextCronFair ==
    \/ cycles = 0 /\ CronFire
    \/ \E u \in Users : cycles = 1 /\ (\A r \in RunIds : runs[r].pc = "idle")
                            /\ ManualTrigger(u)
    \/ \E r \in RunIds : UserStep(r)
    \/ \E r \in RunIds : ThenBriefs(r)
    \/ \E b \in BriefRunIds : BriefStep(b)
    \/ \E b \in BriefRunIds : \E k \in TaskIds : TaskStep(b, k)

\* every await of the actions returns: the services answer or time out
SpecCronFair == InitCronFair /\ [][NextCronFair]_vars /\ WF_vars(NextCronFair)

\* updateUserBriefs of the user has ended, with its list or with a raise
Compiled(u) ==
    \E b \in BriefRunIds : bruns[b].userId = u /\ bruns[b].pc \in {"returned", "raised"}

\* C30: updateUserBriefs of a user starts only in a step that finds the user's
\* updateUserFeeds completed, and once the job has fired (no compile step begun
\* yet) every onboarded user gets to the end of the compile step, whatever
\* happens to the other users.
C30_CompileAfterRefreshForEveryUser ==
    /\ [][\A b \in BriefRunIds :
             (bruns[b].pc # "prefs" /\ bruns'[b].pc = "prefs")
             => \E r \in RunIds : /\ runs[r].userId = bruns'[b].userId
                                  /\ runs[r].pc = "done"
                                  /\ runs'[r].pc = "idle"]_vars
    /\ \A u \in Users :
          (cycles = 1 /\ bstarted = 0 /\ prefs[u].onboarded) ~> Compiled(u)

\* C30 (witness): updateUserBriefs of one user has raised, and the other user's
\* has returned after its refresh with a brief item saved
C30_Witness ==
    \E b1, b2 \in BriefRunIds :
        /\ bruns[b1].pc = "raised"
        /\ bruns[b2].pc = "returned"
        /\ bruns[b2].userId # bruns[b1].userId
        /\ bruns[b2].result # << >>
        /\ \A r \in RunIds : runs[r].pc = "idle"

-----------------------------------------------------------------------------
(* The hourly digest cron: getUsersNeedingWeeklyDigest *)

\* Date.getUTCHours() of an instant counted in hours since the epoch
UTCHours(t) == t % 24

\* Date.getUTCDay(): 0 is Sunday, and day 0 of the epoch was a Thursday
UTCDay(t) == ((t \div 24) + 4) % 7

\* mutant: the index match without the filter on the two flags
ScheduledAnyFlags(u, currentHour, currentDay) ==
    /\ prefs[u].hour = currentHour
    /\ prefs[u].dayOfWeek = currentDay

\* the preferences rows the by_brief_schedule index and the filter select
Scheduled(u, currentHour, currentDay) ==
    /\ prefs[u].hour = currentHour
    /\ prefs[u].dayOfWeek = currentDay
    /\ prefs[u].onboarded
    /\ prefs[u].email

\* the handler of getUsersNeedingWeeklyDigest at instant t
UsersNeedingWeeklyDigest(t) ==
    SelectSeq(UserOrder, LAMBDA u : Scheduled(u, UTCHours(t), UTCDay(t)))

\* preferences whose schedule is 09:00 on Monday in a zone 5 hours behind UTC
EasternPrefs == [DefaultPrefs EXCEPT !.dayOfWeek = 1, !.timezone = 0 - 5]

\* what saved preferences can look like: the schedule, the zone and the flags vary
PrefsConfigs ==
    { [u \in Users |-> IF u = "u1" THEN EasternPrefs ELSE p] :
        p \in { DefaultPrefs,
                [DefaultPrefs EXCEPT !.onboarded = FALSE],
                [DefaultPrefs EXCEPT !.email = FALSE] } }

InitDigest ==
    /\ clock = StartClock
    /\ version = "userFeeds"
    /\ prefs \in PrefsConfigs
    /\ topicFeeds = SharedTopic
    /\ served = Serve("example", "empty")
    /\ InitTables

\* an hour passes
HourPasses ==
    /\ clock < StartClock + MaxHours
    /\ clock' = clock + 1
    /\ UNCHANGED <<envVars, refreshVars, briefVars, digestVars>>

\* generateScheduledWeeklyDigests runs the query
GetUsersNeedingWeeklyDigest ==
    /\ due' = [at |-> clock, users |-> UsersNeedingWeeklyDigest(clock)]
    /\ UNCHANGED <<clock, envVars, refreshVars, briefVars, druns, outbox, briefs, rss, triggered>>

NextDigest ==
    \/ HourPasses
    \/ GetUsersNeedingWeeklyDigest

SpecDigest == InitDigest /\ [][NextDigest]_vars

-----------------------------------------------------------------------------
(* Properties of the digest selection *)

\* the instant t on the wall clock of a zone `timezone` hours from UTC
Local(t, timezone) == t + timezone

\* C10: the query selects a user at instant t exactly when t, projected into
\* the user's stored timezone, falls on the user's scheduled day of the week
\* and within the scheduled hour (the user being onboarded with email on).
C10_SelectedIffLocalScheduleMatches ==
    due.at >= StartClock =>
        \A u \in Users :
            u \in Range(due.users) <=>
                /\ prefs[u].onboarded
                /\ prefs[u].email
                /\ UTCHours(Local(due.at, prefs[u].timezone)) = prefs[u].hour
                /\ UTCDay(Local(due.at, prefs[u].timezone)) = prefs[u].dayOfWeek

-----------------------------------------------------------------------------
(* Properties of the brief-compile job *)

\* the tasks of all updateUserBriefs actions: <<run, position>>
Tasks == {t \in BriefRunIds \X TaskIds : t[2] <= Len(bruns[t[1]].tasks)}

\* the tasks whose saveBriefItem call has returned, for one pair (user, feedItem)
Saved(u, item) ==
    {t \in Tasks : /\ bruns[t[1]].userId = u
                   /\ bruns[t[1]].tasks[t[2]].item = item
                   /\ bruns[t[1]].tasks[t[2]].st = "ok"}

\* C3: there is at most one brief item per (user, feed item), and every
\* saveBriefItem call for a pair returned the id of that one row: a second
\* call inserted nothing and returned the existing id.
C3_OneBriefItemPerUserAndFeedItem ==
    \A u \in Users : \A item \in 1 .. Len(feedItems) :
        /\ Cardinality(BriefRows(briefItems, u, item)) <= 1
        /\ \A t \in Saved(u, item) :
              BriefRows(briefItems, u, item) = {bruns[t[1]].tasks[t[2]].briefId}

\* C3: two overlapping updateUserBriefs actions have both called saveBriefItem
\* for the same pair and the table holds one row for it
C3_Witness ==
    \E u \in Users : \E item \in 1 .. Len(feedItems) :
        /\ \E s \in Saved(u, item) : \E t \in Saved(u, item) : s[1] # t[1]
        /\ Cardinality(BriefRows(briefItems, u, item)) = 1

\* C9: an updateUserBriefs invocation does not raise because one item failed;
\* when it returns, its result is the items that succeeded, each with a
\* brief row, and only the failed items were dropped.
C9_ItemFailureDropsOnlyThatItem ==
    \A b \in BriefRunIds :
        /\ bruns[b].pc # "raised"
        /\ bruns[b].pc = "returned" =>
              /\ Range(bruns[b].result) =
                   {bruns[b].tasks[k].item : k \in {j \in 1 .. Len(bruns[b].tasks) :
                                                       bruns[b].tasks[j].st = "ok"}}
              /\ \A item \in Range(bruns[b].result) :
                    BriefRows(briefItems, bruns[b].userId, item) # {}

-----------------------------------------------------------------------------
(* The digest job: generateScheduledWeeklyDigests and generateWeeklyDigest *)

\* pLimit(3) of generateScheduledWeeklyDigests
DigestLimit == 3

\* topic.topItems.slice(0, 3) of createWeeklyDigestEmailText
ShownLimit == 3

\* the numbers of a set as a sequence, largest first
RECURSIVE Descending(_)
Descending(S) ==
    IF S = {} THEN << >>
    ELSE LET m == CHOOSE x \in S : \A y \in S : x >= y
         IN << m >> \o Descending(S \ {m})

\* getBriefItemsWithTopics: the user's brief rows created after `since`, newest first
BriefsSince(u, since) ==
    Descending({i \in 1 .. Len(briefItems) :
                   briefItems[i].userId = u /\ briefItems[i].createdAt > since})

\* getBriefItemsWithTopics: the topic of the first topicFeeds row of the item's feed
TopicName(i) ==
    LET f == feedItems[briefItems[i].feedItemId].feedId
        rows == {k \in 1 .. Len(topicFeeds) : topicFeeds[k].feedId = f}
    IN IF rows = {} THEN "Unknown"
       ELSE topicFeeds[CHOOSE k \in rows : \A j \in rows : k <= j].topicId

\* briefs.sort((a, b) => b.createdAt - a.createdAt), a stable sort
RECURSIVE InsertByCreated(_, _)
InsertByCreated(x, s) ==
    IF s = << >> THEN << x >>
    ELSE IF briefItems[x].createdAt > briefItems[s[Len(s)]].createdAt
         THEN Append(InsertByCreated(x, SubSeq(s, 1, Len(s) - 1)), s[Len(s)])
         ELSE Append(s, x)

RECURSIVE SortByCreated(_)
SortByCreated(s) ==
    IF s = << >> THEN << >>
    ELSE InsertByCreated(s[Len(s)], SortByCreated(SubSeq(s, 1, Len(s) - 1)))

\* the topicGroups Map: topic names in the order of their first brief
RECURSIVE TopicOrder(_)
TopicOrder(ids) ==
    IF ids = << >> THEN << >>
    ELSE LET front == TopicOrder(SubSeq(ids, 1, Len(ids) - 1))
             t == TopicName(ids[Len(ids)])
         IN IF t \in Range(front) THEN front ELSE Append(front, t)

\* topicSummaries of generateWeeklyDigest
TopicSummaries(ids) ==
    LET order == TopicOrder(ids)
    IN [k \in 1 .. Len(order) |->
          LET group == SelectSeq(ids, LAMBDA i : TopicName(i) = order[k])
          IN [topicName |-> order[k], count |-> Len(group),
              topItems |-> SortByCreated(group)]]

\* topicSummaries.sort((a, b) => b.count - a.count), a stable sort
RECURSIVE InsertByCount(_, _)
InsertByCount(x, s) ==
    IF s = << >> THEN << x >>
    ELSE IF x.count > s[Len(s)].count
         THEN Append(InsertByCount(x, SubSeq(s, 1, Len(s) - 1)), s[Len(s)])
         ELSE Append(s, x)

\* mutant: the topics left in the order of the Map
SortByCountNone(s) == s

RECURSIVE SortByCount(_)
SortByCount(s) ==
    IF s = << >> THEN << >>
    ELSE InsertByCount(s[Len(s)], SortByCount(SubSeq(s, 1, Len(s) - 1)))

\* createWeeklyDigestEmailText: the lines of "Topics Overview"
EmailOverview(summaries) ==
    LET sorted == SortByCount(summaries)
    IN [k \in 1 .. Len(sorted) |->
          [topicName |-> sorted[k].topicName, count |-> sorted[k].count]]

\* createWeeklyDigestEmailText: the sections of the email and the items each shows
EmailSections(summaries) ==
    LET sorted == SortByCount(summaries)
    IN [k \in 1 .. Len(sorted) |->
          [topicName |-> sorted[k].topicName, count |-> sorted[k].count,
           shown |-> SubSeq(sorted[k].topItems, 1,
                            IF sorted[k].count < ShownLimit THEN sorted[k].count
                            ELSE ShownLimit)]]

\* mutant: an error of the action is thrown on
SafeRunActionRethrows(st) == st

\* safeRunAction: a rejected generateWeeklyDigest becomes an error value
SafeRunAction(st) == IF st = "threw" THEN "err" ELSE st

QueuedDigest(u) == [userId |-> u, st |-> "queued", emailFlag |-> FALSE, items |-> << >>]

DigestsInFlight(tasks) ==
    {k \in 1 .. Len(tasks) : tasks[k].st \in {"prefs", "briefs", "send"}}

\* p-limit of the digest job: start queued tasks while fewer than the limit are active
AdmitDigests(tasks) ==
    LET room == DigestLimit - Cardinality(DigestsInFlight(tasks))
        ahead(k) == Cardinality({j \in 1 .. k - 1 : tasks[j].st = "queued"})
    IN [k \in 1 .. Len(tasks) |->
          IF tasks[k].st = "queued" /\ ahead(k) < room
          THEN [tasks[k] EXCEPT !.st = "prefs"]
          ELSE tasks[k]]

IdleDigestSlots == SelectSeq([i \in 1 .. MaxDigestRuns |-> i],
                             LAMBDA d : druns[d].pc = "idle")

deliveryStatic == <<clock, envVars, refreshVars, briefVars, due, briefs, rss, triggered>>

\* the cron job, or a re-run of it: getUsersNeedingWeeklyDigest, then one task per user
DigestFire ==
    LET users == UsersNeedingWeeklyDigest(clock)
    IN /\ Len(IdleDigestSlots) > 0
       /\ druns' = [druns EXCEPT ![IdleDigestSlots[1]] =
                       [pc |-> "tasks", at |-> clock, users |-> users,
                        eligible |-> {u \in Users : prefs[u].onboarded /\ prefs[u].email},
                        tasks |-> AdmitDigests([k \in 1 .. Len(users) |->
                                                   QueuedDigest(users[k])])]]
       /\ UNCHANGED <<outbox, deliveryStatic>>

DigestAt(d, k, st) ==
    /\ druns[d].pc = "tasks"
    /\ k \in 1 .. Len(druns[d].tasks)
    /\ druns[d].tasks[k].st = st

DigestTo(d, k, task) ==
    druns' = [druns EXCEPT ![d].tasks = AdmitDigests([@ EXCEPT ![k] = task])]

\* generateWeeklyDigest: getUserPreferenceQuery and the notifications.email test
DigestPrefs(d, k) ==
    LET task == druns[d].tasks[k]
        email == prefs[task.userId].email
    IN /\ DigestAt(d, k, "prefs")
       /\ DigestTo(d, k, [task EXCEPT !.st = IF email THEN "briefs" ELSE "null",
                                      !.emailFlag = email])
       /\ UNCHANGED <<outbox, deliveryStatic>>

\* generateWeeklyDigest: getBriefItemsWithTopics since one week ago
DigestBriefs(d, k) ==
    LET task == druns[d].tasks[k]
    IN /\ DigestAt(d, k, "briefs")
       /\ DigestTo(d, k, [task EXCEPT !.st = "send",
                                      !.items = BriefsSince(task.userId, clock - ONE_WEEK)])
       /\ UNCHANGED <<outbox, deliveryStatic>>

\* resend.sendEmail returns a delivery id
SendOk(d, k) ==
    LET task == druns[d].tasks[k]
    IN /\ DigestAt(d, k, "send")
       /\ outbox' = Append(outbox,
                       [userId |-> task.userId, run |-> d, at |-> druns[d].at,
                        emailFlag |-> task.emailFlag, items |-> task.items,
                        overview |-> EmailOverview(TopicSummaries(task.items)),
                        sections |-> EmailSections(TopicSummaries(task.items))])
       /\ DigestTo(d, k, [task EXCEPT !.st = "sent"])
       /\ UNCHANGED deliveryStatic

\* resend.sendEmail returns no delivery id: generateWeeklyDigest returns null
SendNoId(d, k) ==
    /\ DigestAt(d, k, "send")
    /\ DigestTo(d, k, [druns[d].tasks[k] EXCEPT !.st = "null"])
    /\ UNCHANGED <<outbox, deliveryStatic>>

\* resend.sendEmail throws: generateWeeklyDigest rejects inside safeRunAction
SendThrows(d, k) ==
    /\ DigestAt(d, k, "send")
    /\ DigestTo(d, k, [druns[d].tasks[k] EXCEPT !.st = SafeRunAction("threw")])
    /\ UNCHANGED <<outbox, deliveryStatic>>

\* Promise.all settles: the job returns, or throws when a task rejected
DigestSettle(d) ==
    LET tasks == druns[d].tasks
        rejected == \E k \in 1 .. Len(tasks) : tasks[k].st = "threw"
    IN /\ druns[d].pc = "tasks"
       /\ rejected \/ \A k \in 1 .. Len(tasks) : tasks[k].st \in {"sent", "null", "err"}
       /\ druns' = [druns EXCEPT ![d].pc = IF rejected THEN "raised" ELSE "returned"]
       /\ UNCHANGED <<outbox, deliveryStatic>>

\* updateUserPreferences({ notifications: { email } })
UpdateUserPreferences(u) ==
    /\ prefs' = [prefs EXCEPT ![u].email = ~@]
    /\ UNCHANGED <<clock, version, topicFeeds, served, topics, feedUrl, refreshVars, briefVars,
                   digestVars>>

\* the schedule of a weekly digest on Monday at 23:00 UTC
MondayPrefs == [DefaultPrefs EXCEPT !.hour = 23, !.dayOfWeek = 1]

DeliveryPrefs ==
    { [u \in Users |-> IF u = "u1" THEN MondayPrefs ELSE p] :
        p \in { MondayPrefs,
                [MondayPrefs EXCEPT !.onboarded = FALSE],
                [MondayPrefs EXCEPT !.style = "detailed", !.email = FALSE] } }

\* Monday 22:00 UTC; the tables after u1 and u2 have refreshed their feeds and
\* compiled their briefs
InitDelivery ==
    /\ clock = StartClock + MaxHours - 2
    /\ version = "userFeeds"
    /\ prefs \in DeliveryPrefs
    /\ topicFeeds = SharedTopic
    /\ served = Serve("example", "single")
    /\ topics = TopicsOf(topicFeeds)
    /\ feedUrl = KnownFeeds
    /\ feeds = [f \in FeedIds |-> StartClock]
    /\ feedItems = << [url |-> "b", feedId |-> "f1", publishedAt |-> StartClock - 3 * ONE_DAY],
                      [url |-> "c", feedId |-> "f1", publishedAt |-> StartClock - 1],
                      [url |-> "e", feedId |-> "f2", publishedAt |-> StartClock - 2] >>
    /\ briefItems = << [userId |-> "u1", feedItemId |-> 2, createdAt |-> StartClock],
                       [userId |-> "u1", feedItemId |-> 3, createdAt |-> StartClock],
                       [userId |-> "u1", feedItemId |-> 1, createdAt |-> StartClock],
                       [userId |-> "u2", feedItemId |-> 2, createdAt |-> StartClock],
                       [userId |-> "u2", feedItemId |-> 1, createdAt |-> StartClock] >>
    /\ InitIdle

NextDelivery ==
    \/ HourPasses
    \/ DigestFire
    \/ \E u \in Users : UpdateUserPreferences(u)
    \/ \E d \in DigestRunIds : DigestSettle(d)
    \/ \E d \in DigestRunIds : \E k \in 1 .. Cardinality(Users) :
          \/ DigestPrefs(d, k)
          \/ DigestBriefs(d, k)
          \/ SendOk(d, k)
          \/ SendNoId(d, k)
          \/ SendThrows(d, k)

SpecDelivery == InitDelivery /\ [][NextDelivery]_vars

-----------------------------------------------------------------------------
(* Topics shown to a user *)

\* u1 made the topic t2 with the second feed; later u2 made the topic t3 with the
\* same feed URL; both follow the curated topic t1
OwnTopics ==
    << [userId |-> "u1", topicId |-> "t2", feedId |-> "f2"],
       [userId |-> NoUser, topicId |-> "t1", feedId |-> "f1"],
       [userId |-> "u1", topicId |-> "t1", feedId |-> "f1"],
       [userId |-> "u2", topicId |-> "t1", feedId |-> "f1"],
       [userId |-> "u2", topicId |-> "t3", feedId |-> "f2"] >>

\* Monday 22:00 UTC; both users have refreshed their feeds and compiled their briefs
InitShown ==
    /\ clock = StartClock + MaxHours - 2
    /\ version = "userFeeds"
    /\ prefs = [u \in Users |-> MondayPrefs]
    /\ topicFeeds = OwnTopics
    /\ served = Serve("example", "single")
    /\ topics = TopicsOf(topicFeeds)
    /\ feedUrl = KnownFeeds
    /\ feeds = [f \in FeedIds |-> StartClock]
    /\ feedItems = << [url |-> "c", feedId |-> "f1", publishedAt |-> StartClock - 1],
                      [url |-> "e", feedId |-> "f2", publishedAt |-> StartClock - 2] >>
    /\ briefItems = << [userId |-> "u1", feedItemId |-> 1, createdAt |-> StartClock],
                       [userId |-> "u1", feedItemId |-> 2, createdAt |-> StartClock],
                       [userId |-> "u2", feedItemId |-> 1, createdAt |-> StartClock],
                       [userId |-> "u2", feedItemId |-> 2, createdAt |-> StartClock] >>
    /\ InitIdle

SpecShown == InitShown /\ [][NextDelivery]_vars

\* the user has a topicFeeds row of the topic
Follows(u, t) ==
    \E k \in 1 .. Len(topicFeeds) : topicFeeds[k].userId = u /\ topicFeeds[k].topicId = t

\* C27: every topic under which a delivered digest groups a user's brief items
\* is a topic this user follows (the links do not change in these behaviours).
C27_ShownTopicIsFollowed ==
    \A i \in 1 .. Len(outbox) :
        \A k \in 1 .. Len(outbox[i].sections) :
            \/ outbox[i].sections[k].topicName = "Unknown"
            \/ Follows(outbox[i].userId, outbox[i].sections[k].topicName)

-----------------------------------------------------------------------------
(* Properties of the digest job *)

\* the digest emails delivered, as positions of the outbox
Sent == 1 .. Len(outbox)

\* C11: for one due occurrence of a user's schedule (the hour in which the
\* job's query selected the user) at most one digest is delivered, however
\* often generateScheduledWeeklyDigests fires in that hour.
C11_DigestSentOncePerOccurrence ==
    \A i \in Sent : \A j \in Sent :
        (outbox[i].userId = outbox[j].userId /\ outbox[i].at = outbox[j].at) => i = j

\* C12: no brief item appears in more than one delivered digest of a user.
C12_NoBriefItemInTwoDigests ==
    \A i \in Sent : \A j \in Sent :
        (i # j /\ outbox[i].userId = outbox[j].userId)
            => Range(outbox[i].items) \cap Range(outbox[j].items) = {}

\* C13: every delivered digest went to a user whose preferences had
\* onboarded = true and notifications.email = true when the run selected its
\* users, and notifications.email = true when generateWeeklyDigest read them.
C13_SentOnlyToOnboardedWithEmail ==
    \A i \in Sent :
        /\ outbox[i].userId \in druns[outbox[i].run].eligible
        /\ outbox[i].emailFlag

\* C13: a run delivered a digest and left out a user whose schedule matched
\* but who had one of the two flags off
C13_Witness ==
    \E i \in Sent : \E u \in Users :
        LET run == druns[outbox[i].run]
        IN /\ u \notin run.eligible
           /\ u \notin Range(run.users)
           /\ prefs[u].hour = UTCHours(run.at)
           /\ prefs[u].dayOfWeek = UTCDay(run.at)

\* the cap on the entries of one topic that the style asks for
StyleCap(style) == IF style = "detailed" THEN 5 ELSE 1

\* C14: in a delivered digest a topic with n candidate brief items shows
\* min(n, 1) entries for a concise user and min(n, 5) for a detailed user.
C14_StyleCapsEntriesPerTopic ==
    \A i \in Sent : \A k \in 1 .. Len(outbox[i].sections) :
        LET section == outbox[i].sections[k]
            cap == StyleCap(prefs[outbox[i].userId].style)
        IN Len(section.shown) = IF section.count < cap THEN section.count ELSE cap

\* C15: a run of generateScheduledWeeklyDigests never raises, and when it has
\* returned every selected user's digest was attempted and ended by its own
\* outcome: delivered (the email is in the outbox), null, or an error value.
C15_DigestFailureIsolated ==
    \A d \in DigestRunIds :
        /\ druns[d].pc # "raised"
        /\ druns[d].pc = "returned" =>
              /\ Len(druns[d].tasks) = Len(druns[d].users)
              /\ \A k \in 1 .. Len(druns[d].tasks) :
                    /\ druns[d].tasks[k].st \in {"sent", "null", "err"}
                    /\ druns[d].tasks[k].st = "sent" =>
                          \E i \in Sent : /\ outbox[i].run = d
                                          /\ outbox[i].userId = druns[d].tasks[k].userId

\* C15: a run has returned in which one user's generateWeeklyDigest raised and
\* another user's digest was delivered
C15_Witness ==
    \E d \in DigestRunIds :
        /\ druns[d].pc = "returned"
        /\ \E k \in 1 .. Len(druns[d].tasks) : druns[d].tasks[k].st = "err"
        /\ \E k \in 1 .. Len(druns[d].tasks) : druns[d].tasks[k].st = "sent"

-----------------------------------------------------------------------------
(* Properties of the pool of updateUserBriefs *)

\* at most ConcurrencyLimit items are being processed, and an item waits only
\* while all the slots are taken
PoolBounded ==
    \A b \in BriefRunIds :
        /\ Cardinality(InFlight(bruns[b].tasks)) <= ConcurrencyLimit
        /\ (\E k \in 1 .. Len(bruns[b].tasks) : bruns[b].tasks[k].st = "queued")
              => Cardinality(InFlight(bruns[b].tasks)) = ConcurrencyLimit

\* some item of a batch is waiting for a slot
Waiting ==
    \E b \in BriefRunIds : \E k \in 1 .. Len(bruns[b].tasks) :
        bruns[b].tasks[k].st = "queued"

-----------------------------------------------------------------------------
(* Topic management: topics.ts and onboardUser *)

\* getFeedByUrl: by_url, .unique() raises when two rows match
GetFeedByUrl(fu, url) ==
    LET S == {f \in FeedRowIds : fu[f] = url}
    IN [ok |-> Cardinality(S) <= 1,
        id |-> IF Cardinality(S) = 1 THEN CHOOSE f \in S : TRUE ELSE NoFeedRow]

FreeFeedRows(fu) == {k \in 1 .. Len(FeedRowSeq) : fu[FeedRowSeq[k]] = NoLink}
FreshFeed(fu) ==
    FeedRowSeq[CHOOSE k \in FreeFeedRows(fu) : \A j \in FreeFeedRows(fu) : k <= j]

FreeTopics(tt) ==
    IF Cardinality({t \in TopicIds : tt[t].st # "free"}) >= MaxTopics THEN {}
    ELSE {k \in 1 .. Len(TopicIdSeq) : tt[TopicIdSeq[k]].st = "free"}
FreshTopic(tt) ==
    TopicIdSeq[CHOOSE k \in FreeTopics(tt) : \A j \in FreeTopics(tt) : k <= j]

\* getTopicFeedRelation: by_topic_and_feed (any user), .unique()
GetTopicFeedRelation(tf, t, f) ==
    LET S == {i \in 1 .. Len(tf) : tf[i].topicId = t /\ tf[i].feedId = f}
    IN [ok |-> Cardinality(S) <= 1, found |-> S # {}]

\* the tables a mutation works on, and whether it is still running (not raised)
Tables(tt, fu, tf) == [ok |-> TRUE, topics |-> tt, feedUrl |-> fu, topicFeeds |-> tf]
Raised(st) == [st EXCEPT !.ok = FALSE]

\* one promise of rssUrls.map(...), run from the answer lk of its feed lookup
\* to its last insert: the feed found or a new feed row, then the link
\* (ensure: only if no relation)
LinkClosure(st, url, lk, owner, t, ensure) ==
    LET fresh == lk.id = NoFeedRow
        fid == IF ~fresh THEN lk.id
               ELSE IF FreeFeedRows(st.feedUrl) = {} THEN NoFeedRow
               ELSE FreshFeed(st.feedUrl)
        fu == IF fresh /\ fid # NoFeedRow THEN [st.feedUrl EXCEPT ![fid] = url]
              ELSE st.feedUrl
        rel == GetTopicFeedRelation(st.topicFeeds, t, fid)
        row == [userId |-> owner, topicId |-> t, feedId |-> fid]
    IN IF ~st.ok \/ ~lk.ok \/ fid = NoFeedRow \/ (ensure /\ ~rel.ok) THEN Raised(st)
       ELSE [st EXCEPT !.feedUrl = fu,
                       !.topicFeeds = IF ensure /\ rel.found THEN @ ELSE Append(@, row)]

\* rssUrls.map(...) starts every promise up to its first await, so all feed
\* lookups see the table as it was; then the promises finish one after the other
RECURSIVE LinkEach(_, _, _, _, _, _)
LinkEach(st, urls, found, owner, t, ensure) ==
    IF urls = << >> THEN st
    ELSE LinkEach(LinkClosure(st, Head(urls), Head(found), owner, t, ensure),
                  Tail(urls), Tail(found), owner, t, ensure)

LinkInTurn(st, urls, owner, t, ensure) ==
    LinkEach(st, urls, [k \in 1 .. Len(urls) |-> GetFeedByUrl(st.feedUrl, urls[k])],
             owner, t, ensure)

\* the promises taking turns at every await: all feed
\* lookups, then the feed inserts, then all relation lookups, then the link inserts
RECURSIVE InsertFeeds(_, _, _)
InsertFeeds(st, urls, found) ==
    IF urls = << >> THEN [st |-> st, ids |-> << >>]
    ELSE LET fresh == Head(found).id = NoFeedRow
             full == FreeFeedRows(st.feedUrl) = {}
             fid == IF ~fresh THEN Head(found).id
                    ELSE IF full THEN NoFeedRow ELSE FreshFeed(st.feedUrl)
             st1 == IF ~Head(found).ok \/ fid = NoFeedRow THEN Raised(st)
                    ELSE IF fresh THEN [st EXCEPT !.feedUrl[fid] = Head(urls)]
                    ELSE st
             rest == InsertFeeds(st1, Tail(urls), Tail(found))
         IN [st |-> rest.st, ids |-> <<fid>> \o rest.ids]

RECURSIVE InsertLinks(_, _, _, _, _)
InsertLinks(st, ids, rels, owner, t) ==
    IF ids = << >> THEN st
    ELSE LET row == [userId |-> owner, topicId |-> t, feedId |-> Head(ids)]
             st1 == IF ~Head(rels).ok THEN Raised(st)
                    ELSE IF Head(rels).found THEN st
                    ELSE [st EXCEPT !.topicFeeds = Append(@, row)]
         IN InsertLinks(st1, Tail(ids), Tail(rels), owner, t)

LinkInterleaved(st, urls, owner, t, ensure) ==
    LET found == [k \in 1 .. Len(urls) |-> GetFeedByUrl(st.feedUrl, urls[k])]
        fed == InsertFeeds(st, urls, found)
        rels == [k \in 1 .. Len(urls) |->
                   IF ensure /\ fed.ids[k] # NoFeedRow
                   THEN GetTopicFeedRelation(st.topicFeeds, t, fed.ids[k])
                   ELSE [ok |-> TRUE, found |-> FALSE]]
    IN InsertLinks(fed.st, fed.ids, rels, owner, t)

\* Promise.all(rssUrls.map(...)): the promises run in turn or interleaved
LinkAll(st, urls, owner, t, ensure, overlap) ==
    IF overlap THEN LinkInterleaved(st, urls, owner, t, ensure)
    ELSE LinkInTurn(st, urls, owner, t, ensure)

\* name.trim()
Trim(name) == IF name = " art" THEN "art" ELSE name

NameArgs == {"", "art", " art", "news"}
UrlArgs == {"url1", "url3"}
UrlLists == {<< >>} \cup {<<a>> : a \in UrlArgs} \cup {<<a, b>> : a, b \in UrlArgs}
TopicLists == {<< >>} \cup {<<a>> : a \in TopicIds} \cup {<<a, b>> : a, b \in TopicIds}

topicStatic == <<clock, version, served, refreshVars, briefVars, digestVars>>

\* the tables after followTopic of user u for topic t
Follow(tf, u, t) ==
    LET curated == SelectSeq(tf, LAMBDA r : r.topicId = t /\ r.userId = NoUser)
        existingFeedIds ==
            {tf[i].feedId : i \in {j \in 1 .. Len(tf) : tf[j].userId = u /\ tf[j].topicId = t}}
        feedsToFollow == SelectSeq(curated, LAMBDA r : r.feedId \notin existingFeedIds)
    IN tf \o [k \in 1 .. Len(feedsToFollow) |->
                 [userId |-> u, topicId |-> t, feedId |-> feedsToFollow[k].feedId]]

FollowTopic(u, t) ==
    /\ topics[t].st = "live"
    /\ Len(Follow(topicFeeds, u, t)) <= MaxLinks
    /\ topicFeeds' = Follow(topicFeeds, u, t)
    /\ UNCHANGED <<prefs, topics, feedUrl, topicStatic>>

UnfollowTopic(u, t) ==
    /\ topics[t].st = "live"
    /\ topicFeeds' = SelectSeq(topicFeeds, LAMBDA r : ~(r.userId = u /\ r.topicId = t))
    /\ UNCHANGED <<prefs, topics, feedUrl, topicStatic>>

\* a delete that takes the topic's feed items and their brief items along
DeleteUserTopicCascade(u, t) ==
    LET gone == {topicFeeds[i].feedId : i \in {j \in 1 .. Len(topicFeeds) :
                                                  topicFeeds[j].topicId = t}}
        kept == {i \in 1 .. Len(feedItems) : feedItems[i].feedId \notin gone}
    IN /\ topics[t].st = "live"
       /\ topics[t].userId = u
       /\ topicFeeds' = SelectSeq(topicFeeds, LAMBDA r : r.topicId # t)
       /\ topics' = [topics EXCEPT ![t] = [NoTopic EXCEPT !.st = "gone"]]
       /\ feedItems' = SelectSeq(feedItems, LAMBDA r : r.feedId \notin gone)
       /\ briefItems' = SelectSeq(briefItems, LAMBDA r : r.feedItemId \in kept)
       /\ UNCHANGED <<clock, prefs, feedUrl, version, served, feeds, articles, errorLog,
                      runs, cycles, started, bruns, bstarted, digestVars>>

DeleteUserTopic(u, t) ==
    /\ topics[t].st = "live"
    /\ topics[t].userId = u
    /\ topicFeeds' = SelectSeq(topicFeeds, LAMBDA r : r.topicId # t)
    /\ topics' = [topics EXCEPT ![t] = [NoTopic EXCEPT !.st = "gone"]]
    /\ UNCHANGED <<prefs, feedUrl, topicStatic>>

\* the name lookup done on the name as typed, before trim()
CreateUserTopicUntrimmedLookup(u, _name, rssUrls, overlap) ==
    LET name == Trim(_name)
        owned == {t \in TopicIds : topics[t].st = "live" /\ topics[t].userId = u
                                     /\ topics[t].name = _name}
        topicId == FreshTopic(topics)
        tt == [topics EXCEPT ![topicId] = [st |-> "live", userId |-> u, name |-> name]]
        end == LinkAll(Tables(tt, feedUrl, topicFeeds), rssUrls, u, topicId, FALSE, overlap)
    IN /\ name # ""
       /\ Len(rssUrls) # 0
       /\ owned = {}
       /\ FreeTopics(topics) # {}
       /\ end.ok
       /\ Len(end.topicFeeds) <= MaxLinks
       /\ topics' = end.topics
       /\ feedUrl' = end.feedUrl
       /\ topicFeeds' = end.topicFeeds
       /\ UNCHANGED <<prefs, topicStatic>>

CreateUserTopic(u, _name, rssUrls, overlap) ==
    LET name == Trim(_name)
        owned == {t \in TopicIds : topics[t].st = "live" /\ topics[t].userId = u
                                     /\ topics[t].name = name}
        topicId == FreshTopic(topics)
        tt == [topics EXCEPT ![topicId] = [st |-> "live", userId |-> u, name |-> name]]
        end == LinkAll(Tables(tt, feedUrl, topicFeeds), rssUrls, u, topicId, FALSE, overlap)
    IN /\ name # ""
       /\ Len(rssUrls) # 0
       /\ owned = {}
       /\ FreeTopics(topics) # {}
       /\ end.ok
       /\ Len(end.topicFeeds) <= MaxLinks
       /\ topics' = end.topics
       /\ feedUrl' = end.feedUrl
       /\ topicFeeds' = end.topicFeeds
       /\ UNCHANGED <<prefs, topicStatic>>

\* getOrCreateTopic, then the links of one topic of the import
ImportOne(st, topic, overlap) ==
    LET existing == {t \in TopicIds : st.topics[t].st = "live" /\ st.topics[t].userId = NoUser
                                        /\ st.topics[t].name = topic.name}
        full == existing = {} /\ FreeTopics(st.topics) = {}
        topicId == IF existing # {} THEN CHOOSE t \in existing : TRUE
                   ELSE IF full THEN "t1" ELSE FreshTopic(st.topics)
        st1 == IF existing # {} THEN st
               ELSE [st EXCEPT !.topics[topicId] =
                        [st |-> "live", userId |-> NoUser, name |-> topic.name]]
    IN IF ~st.ok \/ Cardinality(existing) > 1 \/ full THEN Raised(st)
       ELSE LinkAll(st1, topic.rssUrls, NoUser, topicId, TRUE, overlap)

RECURSIVE ImportEach(_, _, _)
ImportEach(st, list, overlap) ==
    IF list = << >> THEN st
    ELSE ImportEach(ImportOne(st, Head(list), overlap), Tail(list), overlap)

\* the argument lists of importCuratedTopics
CuratedImports ==
    { << [name |-> "tech", rssUrls |-> <<"url1", "url1">>] >>,
      << [name |-> "tech", rssUrls |-> <<"url3">>],
         [name |-> "cars", rssUrls |-> <<"url3", "url3">>] >>,
      << [name |-> "news", rssUrls |-> <<"url1", "url1">>] >> }

ImportCuratedTopics(list, overlap) ==
    LET end == ImportEach(Tables(topics, feedUrl, topicFeeds), list, overlap)
    IN /\ end.ok
       /\ Len(end.topicFeeds) <= MaxLinks
       /\ topics' = end.topics
       /\ feedUrl' = end.feedUrl
       /\ topicFeeds' = end.topicFeeds
       /\ UNCHANGED <<prefs, topicStatic>>

\* the followTopic calls of onboardUser are not awaited: each one runs, as a
\* mutation of its own, or is dropped; one for a missing topic raises unseen
RECURSIVE FollowEach(_, _, _, _)
FollowEach(tf, u, list, ran) ==
    IF list = << >> THEN tf
    ELSE FollowEach(IF Head(ran) /\ topics[Head(list)].st = "live"
                    THEN Follow(tf, u, Head(list)) ELSE tf,
                    u, Tail(list), Tail(ran))

BriefArgs ==
    { [style |-> "concise", hour |-> 9, dayOfWeek |-> 0, timezone |-> 0],
      [style |-> "detailed", hour |-> 23, dayOfWeek |-> 1, timezone |-> 0] }

OnboardUser(u, brief, topicsToFollow, ran) ==
    LET end == FollowEach(topicFeeds, u, topicsToFollow, ran)
    IN /\ Len(end) <= MaxLinks
       /\ prefs' = [prefs EXCEPT ![u] =
                       [onboarded |-> TRUE, email |-> TRUE, style |-> brief.style,
                        hour |-> brief.hour, dayOfWeek |-> brief.dayOfWeek,
                        timezone |-> brief.timezone]]
       /\ topicFeeds' = end
       /\ UNCHANGED <<topics, feedUrl, topicStatic>>

NewcomerPrefs == [DefaultPrefs EXCEPT !.onboarded = FALSE]

\* after the curated import of one topic with one feed; nobody follows yet
InitTopics ==
    /\ clock = StartClock
    /\ version = "userFeeds"
    /\ prefs = [u \in Users |-> NewcomerPrefs]
    /\ topicFeeds = << [userId |-> NoUser, topicId |-> "t1", feedId |-> "f1"] >>
    /\ served = Serve("example", "empty")
    /\ InitTables

NextTopics ==
    \/ \E u \in Users : \E t \in TopicIds : FollowTopic(u, t)
    \/ \E u \in Users : \E t \in TopicIds : UnfollowTopic(u, t)
    \/ \E u \in Users : \E t \in TopicIds : DeleteUserTopic(u, t)
    \/ \E u \in Users : \E name \in NameArgs : \E rssUrls \in UrlLists :
          \E overlap \in BOOLEAN : CreateUserTopic(u, name, rssUrls, overlap)
    \/ \E list \in CuratedImports : \E overlap \in BOOLEAN :
          ImportCuratedTopics(list, overlap)
    \/ \E u \in Users : \E brief \in BriefArgs : \E topicsToFollow \in TopicLists :
          \E ran \in [1 .. 2 -> BOOLEAN] :
             OnboardUser(u, brief, topicsToFollow, <<ran[1], ran[2]>>)

SpecTopics == InitTopics /\ [][NextTopics]_vars

\* C20: no two topicFeeds rows have the same user, topic and feed, after any
\* sequence of followTopic, unfollowTopic, createUserTopic, importCuratedTopics
\* and onboardUser calls.
C20_OneLinkPerUserTopicFeed ==
    \A i, j \in 1 .. Len(topicFeeds) :
        (/\ topicFeeds[i].userId = topicFeeds[j].userId
         /\ topicFeeds[i].topicId = topicFeeds[j].topicId
         /\ topicFeeds[i].feedId = topicFeeds[j].feedId) => i = j

Owned(u) == {t \in TopicIds : topics[t].st = "live" /\ topics[t].userId = u}

\* C22: createUserTopic with a name that, trimmed, is the name of a topic the
\* caller owns inserts nothing: no step gives a user a topic whose name the
\* user already owns, and so no user ever owns two topics with the same name.
C22_DuplicateTopicNameRejected ==
    /\ [](\A u \in Users : \A t1, t2 \in Owned(u) :
             topics[t1].name = topics[t2].name => t1 = t2)
    /\ [][\A t \in TopicIds :
             (topics[t].st = "free" /\ topics'[t].st = "live" /\ topics'[t].userId # NoUser)
                => /\ topics'[t].name = Trim(topics'[t].name)
                   /\ \A t2 \in TopicIds :
                         (topics[t2].st = "live" /\ topics[t2].userId = topics'[t].userId)
                            => topics[t2].name # topics'[t].name]_vars

\* a user owns the topics art and news: the second was created while the
\* first existed, and a further call with " art" or "news" is a duplicate
C22_Witness ==
    \E u \in Users : \E t1, t2 \in Owned(u) :
        topics[t1].name = "art" /\ topics[t2].name = "news"

\* C21: no two rows of the feeds table have the same url, after any sequence
\* of createUserTopic and importCuratedTopics calls, also when one call lists
\* a url twice and its promises interleave.
C21_OneFeedPerUrl ==
    \A f, g \in FeedRowIds :
        (feedUrl[f] # NoLink /\ feedUrl[f] = feedUrl[g]) => f = g

-----------------------------------------------------------------------------
(* The whole pipeline on one database: refresh, compile, digest, topics *)

\* Monday 23:00 UTC, the hour of both users' digest; f1 was refreshed before,
\* f2 never; u1 and u2 have a brief item for the feed item c
InitPipeline ==
    /\ clock = StartClock + MaxHours - 1
    /\ version = "userFeeds"
    /\ prefs = [u \in Users |-> MondayPrefs]
    /\ topicFeeds = SharedTopic
    /\ served = Serve("example", "single")
    /\ topics = TopicsOf(topicFeeds)
    /\ feedUrl = KnownFeeds
    /\ feeds = [f \in FeedIds |-> IF f = "f1" THEN StartClock ELSE NoStamp]
    /\ feedItems = << [url |-> "b", feedId |-> "f1", publishedAt |-> StartClock - 3 * ONE_DAY],
                      [url |-> "c", feedId |-> "f1", publishedAt |-> StartClock - 1] >>
    /\ briefItems = << [userId |-> "u1", feedItemId |-> 2, createdAt |-> StartClock],
                       [userId |-> "u2", feedItemId |-> 2, createdAt |-> StartClock] >>
    /\ InitIdle

NoDigestYet == \A d \in DigestRunIds : druns[d].pc = "idle"

\* no job is between two of its steps
Quiet ==
    /\ NoneInFlight
    /\ \A b \in BriefRunIds : BriefFree(b)
    /\ \A d \in DigestRunIds : druns[d].pc \in {"idle", "returned", "raised"}

NextPipeline ==
    \/ \E u \in Users : started = 0 /\ ManualTrigger(u)
    \/ \E r \in RunIds : UserStep(r)
    \/ \E u \in Users : NoneInFlight /\ bstarted = 0 /\ StartBriefs(u)
    \/ \E b \in BriefRunIds : BriefStep(b)
    \/ \E b \in BriefRunIds : \E k \in TaskIds : TaskStep(b, k)
    \/ NoDigestYet /\ DigestFire
    \/ \E d \in DigestRunIds : DigestSettle(d)
    \/ \E d \in DigestRunIds : \E k \in 1 .. Cardinality(Users) :
          \/ DigestPrefs(d, k)
          \/ DigestBriefs(d, k)
          \/ SendOk(d, k)
          \/ SendNoId(d, k)
          \/ SendThrows(d, k)
    \/ \E u \in Users : \E t \in TopicIds : Quiet /\ FollowTopic(u, t)
    \/ \E u \in Users : \E t \in TopicIds : Quiet /\ UnfollowTopic(u, t)
    \/ \E u \in Users : \E t \in TopicIds : Quiet /\ DeleteUserTopic(u, t)

SpecPipeline == InitPipeline /\ [][NextPipeline]_vars

\* C19: no step of the refresh, of the brief compilation, of the digest or of
\* a topic follow, unfollow or delete removes or changes a feedItems row or a
\* briefItems row that exists: both tables only grow at the end.
C19_FeedItemsAndBriefItemsImmutable ==
    [][/\ Len(feedItems') >= Len(feedItems)
       /\ \A i \in 1 .. Len(feedItems) : feedItems'[i] = feedItems[i]
       /\ Len(briefItems') >= Len(briefItems)
       /\ \A i \in 1 .. Len(briefItems) : briefItems'[i] = briefItems[i]]_vars

\* the rows of the start are in place after a refresh has stored item e of
\* f2, a compile run has saved a brief item, a digest has gone out and u1 has
\* deleted the topic t2 that carried f2
C19_Witness ==
    /\ Len(feedItems) > 2
    /\ Len(briefItems) > 2
    /\ Len(outbox) > 0
    /\ topics["t2"].st = "gone"
    /\ \E i \in 1 .. Len(feedItems) : feedItems[i].feedId = "f2"
    /\ \E i \in 1 .. Len(briefItems) : feedItems[briefItems[i].feedItemId].feedId = "f2"

\* C25: in a delivered digest the topics are in non-increasing order of their
\* number of brief items, in the overview list and in the per-topic sections.
C25_TopicsByVolumeDescending ==
    \A i \in 1 .. Len(outbox) :
        /\ Len(outbox[i].overview) = Len(outbox[i].sections)
        /\ \A k \in 1 .. Len(outbox[i].sections) :
              /\ outbox[i].overview[k].topicName = outbox[i].sections[k].topicName
              /\ k > 1 => /\ outbox[i].overview[k - 1].count >= outbox[i].overview[k].count
                          /\ outbox[i].sections[k - 1].count >= outbox[i].sections[k].count

\* a digest went out whose newest brief item is of the topic with fewer items:
\* the Map holds that topic first and the email shows it second
C25_Witness ==
    \E i \in 1 .. Len(outbox) :
        /\ Len(outbox[i].sections) = 2
        /\ outbox[i].sections[1].count > outbox[i].sections[2].count
        /\ TopicOrder(outbox[i].items)[1] = outbox[i].sections[2].topicName

-----------------------------------------------------------------------------
(* The scheduler that enumerates UTC offsets: generateScheduledBriefs *)

FirstOffset == 0 - 12
LastOffset == 14

\* getUsersReadyForBrief: the preferences rows of the by_brief_schedule index
UsersReadyForBrief(dayOfWeek, hour) ==
    SelectSeq(UserOrder, LAMBDA u : prefs[u].dayOfWeek = dayOfWeek /\ prefs[u].hour = hour)

\* one iteration of the loop over timezoneOffset: localHour, localDayOfWeek, the query
ReadyAtOffset(at, timezoneOffset) ==
    LET localHour == (UTCHours(at) + timezoneOffset + 24) % 24
        localDayOfWeek == UTCDay(at)
    IN UsersReadyForBrief(localDayOfWeek, localHour)

schedStatic == <<clock, envVars, refreshVars, briefVars, due, druns, outbox, rss>>

\* the job starts: now, and the first iteration's query
SchedFire ==
    /\ triggered.pc \in {"idle", "done"}
    /\ triggered' = [pc |-> "loop", at |-> clock, offset |-> FirstOffset,
                     pending |-> ReadyAtOffset(clock, FirstOffset), log |-> << >>]
    /\ UNCHANGED <<briefs, schedStatic>>

\* getRecentArticlesForUser: an article of a followed feed, of the last week
HasRecentArticles(u) ==
    \E i \in 1 .. Len(articles) :
        /\ articles[i].publishedAt >= clock - ONE_WEEK
        /\ \E k \in 1 .. Len(topicFeeds) :
              topicFeeds[k].userId = u /\ topicFeeds[k].feedId = articles[i].feedId

\* generateBriefForUser for the next user of the iteration; it stores a brief
\* when the user has recent articles and one of them could be processed
SchedTrigger(processable) ==
    LET u == Head(triggered.pending)
        stores == processable /\ HasRecentArticles(u)
    IN /\ triggered.pc = "loop"
       /\ triggered.pending # << >>
       /\ stores => Len(briefs) < MaxBriefs
       /\ triggered' = [triggered EXCEPT
                           !.pending = Tail(@),
                           !.log = Append(@, [userId |-> u, offset |-> triggered.offset])]
       /\ briefs' = IF stores
                    THEN Append(briefs, [userId |-> u, content |-> "text",
                                         status |-> "pending", sentAt |-> NoStamp])
                    ELSE briefs
       /\ UNCHANGED schedStatic

\* the next iteration of the loop, or its end after offset 14
SchedNextOffset ==
    /\ triggered.pc = "loop"
    /\ triggered.pending = << >>
    /\ triggered' = IF triggered.offset = LastOffset
                    THEN [triggered EXCEPT !.pc = "done"]
                    ELSE [triggered EXCEPT
                             !.offset = @ + 1,
                             !.pending = ReadyAtOffset(triggered.at, triggered.offset + 1)]
    /\ UNCHANGED <<briefs, schedStatic>>

\* u1 wants the brief on Monday 09:00 five hours behind UTC, u2 on Sunday 09:00
\* UTC; one article of the shared feed is a day old
InitSched ==
    /\ clock = StartClock
    /\ version = "allFeeds"
    /\ prefs = [u \in Users |-> IF u = "u1" THEN EasternPrefs ELSE DefaultPrefs]
    /\ topicFeeds = SharedTopic
    /\ served = Serve("example", "empty")
    /\ topics = TopicsOf(topicFeeds)
    /\ feedUrl = KnownFeeds
    /\ feeds = [f \in FeedIds |-> StartClock]
    /\ feedItems = << >>
    /\ briefItems = << >>
    /\ articles = << [url |-> "c", feedId |-> "f1", publishedAt |-> StartClock - 1] >>
    /\ runs = [r \in RunIds |-> IdleRun]
    /\ errorLog = {}
    /\ cycles = 0
    /\ started = 0
    /\ bruns = [b \in BriefRunIds |-> IdleBrief]
    /\ bstarted = 0
    /\ due = [at |-> 0, users |-> << >>]
    /\ druns = [d \in DigestRunIds |-> IdleDigest]
    /\ outbox = << >>
    /\ briefs = << >>
    /\ rss = NoCall
    /\ triggered = IdleSched

NextSched ==
    \/ triggered.pc # "loop" /\ HourPasses
    \/ SchedFire
    \/ \E processable \in BOOLEAN : SchedTrigger(processable)
    \/ SchedNextOffset

SpecSched == InitSched /\ [][NextSched]_vars

\* C26: in one run of generateScheduledBriefs each user is triggered at most
\* once, and only a user whose scheduled day of the week and hour are the local
\* day and hour of the run's instant in the user's timezone.
C26_TriggeredOnceAtLocalSchedule ==
    /\ \A i, j \in 1 .. Len(triggered.log) :
          triggered.log[i].userId = triggered.log[j].userId => i = j
    /\ \A i \in 1 .. Len(triggered.log) :
          LET u == triggered.log[i].userId
          IN /\ UTCHours(Local(triggered.at, prefs[u].timezone)) = prefs[u].hour
             /\ UTCDay(Local(triggered.at, prefs[u].timezone)) = prefs[u].dayOfWeek

-----------------------------------------------------------------------------
(* The checkpoint of a feed within one refresh *)

\* the table the run inserts into
Stored(run) == IF run.kind = "user" THEN feedItems ELSE articles

\* the run is working on a feed it has not worked on before in this run
FirstPass(run) ==
    \A k \in 1 .. run.fi - 1 : run.validFeeds[k].id # CurFeed(run).id

\* C24: in a refresh the updateFeedTimestamp write of a feed comes after every
\* insert of that feed in that run: the checkpoint changes only in the step of
\* a run that has stored all the rows it collected for the feed, and while a run
\* is scanning or inserting, the checkpoint still has the value the run loaded.
C24_CheckpointAfterInserts ==
    /\ [][\A f \in FeedIds :
            feeds'[f] # feeds[f] =>
               \E r \in RunIds :
                  /\ runs[r].pc = "stamp"
                  /\ CurFeed(runs[r]).id = f
                  /\ feeds'[f] = runs[r].now
                  /\ \A k \in 1 .. Len(runs[r].newFeedItems) :
                        runs[r].newFeedItems[k] \in Range(Stored(runs[r]))]_vars
    /\ [](\A r \in RunIds :
            (runs[r].pc \in {"scan", "extract", "insert"} /\ FirstPass(runs[r]))
               => feeds[CurFeed(runs[r]).id] = CurFeed(runs[r]).updatedAt)

\* a run stopped between two inserts of a feed: one row stored, one to go, and
\* the checkpoint is not the time of this run
C24_Witness ==
    \E r \in RunIds :
        /\ runs[r].pc = "insert"
        /\ runs[r].ni = 2
        /\ runs[r].newFeedItems[1] \in Range(Stored(runs[r]))
        /\ feeds[CurFeed(runs[r]).id] # runs[r].now

-----------------------------------------------------------------------------
(* The feed parser: safeParseRSS *)

\* what a tag of an item holds: nothing, text, or child elements
FieldArgs == {"absent", "text", "nested"}
ItemArgs == [link : FieldArgs, pubDate : FieldArgs]
ItemLists == {<< >>} \cup {<<a>> : a \in ItemArgs} \cup {<<a, b>> : a, b \in ItemArgs}

\* channel.item as the XML parser hands it over: missing, the text of an empty
\* tag, one object, or an array of objects
ItemFields ==
    {NoItems, [kind |-> "text", list |-> << >>]}
        \cup {[kind |-> "one", list |-> <<a>>] : a \in ItemArgs}
        \cup {[kind |-> "many", list |-> l] : l \in ItemLists}

\* response bodies: not XML, XML with another root, rss without channel, a channel
Bodies ==
    {[kind |-> k, item |-> NoItems] : k \in {"malformed", "html", "nochannel"}}
        \cup {[kind |-> "channel", item |-> i] : i \in ItemFields}

\* what httpClient.get(feedUrl).text() meets
Requests ==
    {[http |-> h, body |-> NoBody] : h \in {"network", "timeout", "status"}}
        \cup {[http |-> "ok", body |-> b] : b \in Bodies}

Ok(items) == [kind |-> "ok", step |-> "", message |-> "", items |-> items]
Err(step, message) == [kind |-> "err", step |-> step, message |-> message, items |-> << >>]
Thrown == [kind |-> "raised", step |-> "", message |-> "", items |-> << >>]

\* mutant: xmlParser.parse called bare, its exception not caught
SafeXmlParseBare(body) ==
    IF body.kind = "malformed" THEN Thrown ELSE Ok(<<body>>)

\* fromThrowable(xmlParser.parse, ...)
SafeXmlParse(body) ==
    IF body.kind = "malformed" THEN Err("xml-parse", "XML parse error") ELSE Ok(<<body>>)

\* RSSItemSchema: link and pubDate are optional strings
ValidItem(a) == a.link # "nested" /\ a.pubDate # "nested"

\* RSSFeedSchema.parse: rss.channel is an object; item is missing, an item or an array
Validates(data) ==
    /\ data.kind = "channel"
    /\ data.item.kind \in {"absent", "one", "many"}
    /\ \A k \in 1 .. Len(data.item.list) : ValidItem(data.item.list[k])

\* fromThrowable(RSSFeedSchema.parse, ...)
SafeValidate(data) ==
    IF Validates(data) THEN Ok(<<data>>) ELSE Err("validation", "Validation error")

\* parseFeed: safeXmlParse, andThen safeValidate, map to { link, items }
ParseFeed(xmlData) ==
    LET parsed == SafeXmlParse(xmlData)
        validated == IF parsed.kind = "ok" THEN SafeValidate(parsed.items[1]) ELSE parsed
    IN IF validated.kind # "ok" THEN validated
       ELSE LET item == validated.items[1].item
            IN Ok(IF item.kind = "absent" THEN << >>
                  ELSE IF item.kind = "many" THEN item.list
                  ELSE <<item.list[1]>>)

\* safeParseRSS: fromPromise(request).match(parseFeed, err({ step: 'fetch' }))
SafeParseRSS(met) ==
    IF met.http # "ok" THEN Err("fetch", "HTTP request error")
    ELSE ParseFeed(met.body)

ParseCall(met) ==
    /\ rss' = [met |-> met, out |-> SafeParseRSS(met)]
    /\ UNCHANGED <<clock, envVars, refreshVars, briefVars, due, druns, outbox, briefs,
                   triggered>>

InitParse ==
    /\ clock = StartClock
    /\ version = "userFeeds"
    /\ prefs = [u \in Users |-> DefaultPrefs]
    /\ topicFeeds = SharedTopic
    /\ served = Serve("example", "empty")
    /\ InitTables

NextParse == \E met \in Requests : ParseCall(met)

SpecParse == InitParse /\ [][NextParse]_vars

\* C23: safeParseRSS never raises: whatever the request meets and whatever the
\* body holds, it returns an error value with a step and a message, or a
\* success value whose items are a list: empty for a channel without item,
\* one element for a single item, the items themselves for several.
C23_SafeParseRSSReturnsAValue ==
    rss.met.http # "none" =>
      /\ (rss.met.http = "ok" /\ Validates(rss.met.body)) => rss.out.kind = "ok"
      /\
        \/ /\ rss.out.kind = "err"
           /\ rss.out.step \in {"fetch", "xml-parse", "validation"}
           /\ rss.out.message # ""
        \/ /\ rss.out.kind = "ok"
           /\ rss.met.http = "ok"
           /\ rss.met.body.kind = "channel"
           /\ LET item == rss.met.body.item
              IN /\ item.kind = "absent" => rss.out.items = << >>
                 /\ item.kind = "one" => rss.out.items = <<item.list[1]>>
                 /\ item.kind = "many" => rss.out.items = item.list

\* a body that is not XML came back as an error value of the xml-parse step
C23_Witness ==
    /\ rss.met.http = "ok"
    /\ rss.met.body.kind = "malformed"
    /\ rss.out.kind = "err"
    /\ rss.out.step = "xml-parse"

-----------------------------------------------------------------------------
(* The briefs table: one row per digest attempt *)

Statuses == {"pending", "sent", "failed"}

\* the optional sentAt argument: left out, or the caller's Date.now()
SentAtArgs == {NoStamp, StartClock + 1}

attemptStatic == <<clock, envVars, refreshVars, briefVars, due, druns, outbox, rss, triggered>>

\* createBrief, called by generateBriefForUser with the formatted text
CreateBrief(u) ==
    /\ Len(briefs) < MaxBriefs
    /\ briefs' = Append(briefs, [userId |-> u, content |-> "text",
                                 status |-> "pending", sentAt |-> NoStamp])
    /\ UNCHANGED attemptStatic

\* updateBriefStatus: ctx.db.patch(briefId, { status, sentAt }), whatever the row
\* holds; a sentAt left out (undefined) removes the field
UpdateBriefStatus(b, status, sentAt) ==
    /\ b <= Len(briefs)
    /\ briefs' = [briefs EXCEPT ![b].status = status, ![b].sentAt = sentAt]
    /\ UNCHANGED attemptStatic

InitAttempts ==
    /\ clock = StartClock + 1
    /\ version = "userFeeds"
    /\ prefs = [u \in Users |-> DefaultPrefs]
    /\ topicFeeds = SharedTopic
    /\ served = Serve("example", "single")
    /\ InitTables

NextAttempts ==
    \/ \E u \in Users : CreateBrief(u)
    \/ \E b \in BriefIds : \E status \in Statuses : \E sentAt \in SentAtArgs :
          UpdateBriefStatus(b, status, sentAt)

SpecAttempts == InitAttempts /\ [][NextAttempts]_vars

Legal(old, new) ==
    \/ new = old
    \/ /\ old.status = "pending"
       /\ new.status \in {"sent", "failed"}
       /\ new.userId = old.userId
       /\ new.content = old.content

-----------------------------------------------------------------------------
(* Properties of the pools across one firing of a periodic job *)

RECURSIVE SumInFlight(_)
SumInFlight(S) ==
    IF S = {} THEN 0
    ELSE LET b == CHOOSE x \in S : TRUE
         IN Cardinality(InFlight(bruns[b].tasks)) + SumInFlight(S \ {b})

\* C17: across one firing of updateFeedsAndGenerateBriefs at most 5 feed items
\* are inside extraction-then-summarization, counted over all users' updateUserBriefs
\* actions, and across one run of generateScheduledWeeklyDigests at most 5
\* digest generations are in flight.
C17_CallsInFlightWithinJobLimit ==
    /\ SumInFlight(BriefRunIds) <= ConcurrencyLimit
    /\ \A d \in DigestRunIds : Cardinality(DigestsInFlight(druns[d].tasks)) <= 5

====
